---- MODULE Spec2Model ----
(***************************************************************************)
(* A model of the Bril optimisation passes of this repository:            *)
(*   examples/dataflow/util.py       form_blocks, fresh                   *)
(*   examples/dataflow/dataflow.py   get_block_labels, get_cfg,           *)
(*                                   get_predecessor, worklist_algorithm  *)
(*   examples/loop/dataflow.py       data_flow_analysis and its instances *)
(*   examples/memory/dse.py          construct_cfg, merge_predecessor_... *)
(*   examples/local_opt/lvn.py       lvn_block                            *)
(*   examples/local_opt/global_dce.py global_dce                          *)
(* Each pass is a script of its own; each gets a specification of its own *)
(* over the variables it owns (SpecBlocks, SpecDF, SpecLVN, SpecDCE).     *)
(***************************************************************************)
EXTENDS Integers, Sequences, FiniteSets, TLC

VARIABLES
    pc,           \* position in the running script
    input,        \* func['instrs'] as read from the program (never written)
    instrs,       \* func['instrs'], the list the pass works on
    cur_block,    \* form_blocks: cur_block
    blocks,       \* the blocks yielded by form_blocks so far (list(form_blocks(..)))
    pos,          \* index of the instruction the running for-loop is at
    block_labels, \* get_block_labels / initialize_labels: label of each block
    cfg,          \* the cfg dict: insertion-ordered list of [k |-> label, v |-> successors]
    curr_label,   \* the label the solver / predecessor scan is working on
    preds,        \* result of the last predecessor scan
    analysis,     \* the dataflow instance that is run
    graph,        \* cfg module: label -> [predecessors, successors] (sets of labels)
    worklist,     \* the solver's worklist (a set of labels)
    In,           \* worklist_algorithm: In;  data_flow_analysis: ins, then the first result
    Out,          \* worklist_algorithm: Out; data_flow_analysis: outs, then the second result
    blk,          \* lvn_block: its parameter block, rewritten in place
    var2num,      \* lvn_block: var2num (a Numbering)
    next_id,      \* lvn_block: var2num._next_id
    value2num,    \* lvn_block: value2num
    num2vars,     \* lvn_block: num2vars
    num2const,    \* lvn_block: num2const
    lvn_locals,   \* lvn_block: argnums, val and num of each loop iteration so far
    used,         \* global_dce: used
    converge,     \* global_dce: converge
    func_args,    \* dse: the names of the function's parameters
    in_state,     \* alias_analysis: in_state
    out_state,    \* alias_analysis: out_state
    dse_worklist, \* alias_analysis: worklist (a deque of labels)
    alias_info,   \* build_alias_info: label -> list of alias maps, one per instruction
    live_in,      \* memory_liveness_analysis: live_in
    live_out,     \* memory_liveness_analysis: live_out
    changed,      \* memory_liveness_analysis: changed
    removed,      \* remove_dead_stores: the stores skipped so far, with the sets they were judged on
    last_def,     \* local_dce: last_def
    bidx,         \* local_dce: index of the block the outer for-loop is at
    kept,         \* local_dce: for each block, the places in func['instrs'] of the instructions still in it
    dominators,   \* licm: dominators (label -> the set of labels that dominate it)
    loops,        \* licm: loops, the list find_loops returned
    l2b,          \* licm: new_label2block (label -> block)
    preheader_acc,\* licm: the module-level counter preheader_acc
    hoisted       \* licm: for each loop processed so far, what make_preloop_header saw and did

blockVars == <<cur_block, blocks, pos>>
cfgVars   == <<block_labels, cfg, curr_label, preds>>
dfVars    == <<analysis, graph, worklist, In, Out>>
lvnVars   == <<blk, var2num, next_id, value2num, num2vars, num2const, lvn_locals>>
dceVars   == <<used, converge>>
dseVars   == <<func_args, in_state, out_state, dse_worklist, alias_info,
               live_in, live_out, changed, removed>>
ldceVars  == <<last_def, bidx, kept>>
licmVars  == <<dominators, loops, l2b, preheader_acc, hoisted>>
vars      == <<pc, input, instrs, blockVars, cfgVars, dfVars, lvnVars, dceVars,
               dseVars, ldceVars, licmVars>>

\* the variables a specification leaves alone
restBlocks == <<dfVars, lvnVars, dceVars, dseVars, ldceVars, licmVars>>
restDF     == <<lvnVars, dceVars, dseVars, ldceVars, licmVars>>
restLVN    == <<instrs, cur_block, blocks, cfgVars, dfVars, dceVars, dseVars, ldceVars, licmVars>>
restDCE    == <<cur_block, blocks, cfgVars, dfVars, lvnVars, dseVars, ldceVars, licmVars>>
restDSE    == <<cur_block, curr_label, preds, dfVars, lvnVars, dceVars, ldceVars, licmVars>>
restLDCE   == <<cur_block, cfgVars, dfVars, lvnVars, dceVars, dseVars, licmVars>>
restLICM   == <<cur_block, cfg, curr_label, preds, lvnVars, dceVars, dseVars, ldceVars>>

\* the variables of the passes that do not run in a specification
EmptyDict == [k \in {} |-> 0]
IdleBlocks == cur_block = <<>> /\ blocks = <<>>
IdleCfg == block_labels = <<>> /\ cfg = <<>> /\ curr_label = "" /\ preds = <<>>
IdleDF == analysis = "" /\ graph = EmptyDict /\ worklist = {} /\ In = EmptyDict /\ Out = EmptyDict
IdleLVN ==
    /\ blk = <<>> /\ var2num = EmptyDict /\ next_id = 0 /\ value2num = EmptyDict
    /\ num2vars = EmptyDict /\ num2const = EmptyDict /\ lvn_locals = <<>>
IdleDCE == used = {} /\ converge = FALSE
IdleDSE ==
    /\ func_args = <<>> /\ in_state = EmptyDict /\ out_state = EmptyDict
    /\ dse_worklist = <<>> /\ alias_info = EmptyDict /\ live_in = EmptyDict
    /\ live_out = EmptyDict /\ changed = FALSE /\ removed = {}
IdleLDCE == last_def = EmptyDict /\ bidx = 0 /\ kept = <<>>
IdleLICM == dominators = EmptyDict /\ loops = <<>> /\ l2b = EmptyDict /\ preheader_acc = 0 /\ hoisted = <<>>

-----------------------------------------------------------------------------
(* Bounds of the model *)

\* longest instruction list given to form_blocks and the CFG builders
MaxInstrs == 4

-----------------------------------------------------------------------------
(* Generic helpers: Python lists, sets and insertion-ordered dicts *)

Range(s) == {s[i] : i \in 1..Len(s)}

SeqsUpTo(S, n) == UNION {[1..k -> S] : k \in 0..n}

Last(s) == s[Len(s)]

RECURSIVE flatten(_)
\* util.flatten: list(itertools.chain(*ll))
flatten(ll) == IF ll = <<>> THEN <<>> ELSE Head(ll) \o flatten(Tail(ll))

\* dict: key in d
DictHas(d, k) == \E i \in 1..Len(d) : d[i].k = k

\* dict: d[k]
DictGet(d, k) == d[CHOOSE i \in 1..Len(d) : d[i].k = k].v

\* dict: d[k] = v (a new key goes last, an old key keeps its place)
DictSet(d, k, v) ==
    IF DictHas(d, k)
    THEN [i \in 1..Len(d) |-> IF d[i].k = k THEN [k |-> k, v |-> v] ELSE d[i]]
    ELSE Append(d, [k |-> k, v |-> v])

\* dict: list(d.keys())
DictKeys(d) == [i \in 1..Len(d) |-> d[i].k]

-----------------------------------------------------------------------------
(* Instructions: a JSON object, either an operation or a label marker.     *)
(* An absent key is the empty string / the empty list / 0.                 *)

Instr(op, dest, args, value, labels) ==
    [op |-> op, label |-> "", dest |-> dest, args |-> args, value |-> value,
     labels |-> labels]

Label(name) ==
    [op |-> "", label |-> name, dest |-> "", args |-> <<>>, value |-> 0,
     labels |-> <<>>]

\* 'op' in instr
HasOp(instr) == instr.op # ""

\* 'dest' in instr
HasDest(instr) == instr.dest # ""

\* 'args' in instr
HasArgs(instr) == instr.args # <<>>

\* Instructions that terminate a basic block.
TERMINATORS == {"br", "jmp", "ret"}

-----------------------------------------------------------------------------
(* util.py *)

\* fresh: the first seed + str(i), i = 0, 1, ..., that is not in names
fresh(seed, names) ==
    seed \o ToString(CHOOSE i \in 0..Cardinality(names) :
                        /\ (seed \o ToString(i)) \notin names
                        /\ \A j \in 0..(i - 1) : (seed \o ToString(j)) \in names)

\* form_blocks_step with the label not put into the block it starts
form_blocks_step_drops_label(st, instr) ==
    IF HasOp(instr)
    THEN IF instr.op \in TERMINATORS
         THEN [cur_block |-> <<>>,
               blocks |-> Append(st.blocks, Append(st.cur_block, instr))]
         ELSE [cur_block |-> Append(st.cur_block, instr), blocks |-> st.blocks]
    ELSE [cur_block |-> <<>>,
          blocks |-> IF st.cur_block # <<>>
                     THEN Append(st.blocks, st.cur_block)
                     ELSE st.blocks]

\* form_blocks_step without the `if cur_block` test before the yield at a label
form_blocks_step_yields_empty(st, instr) ==
    IF HasOp(instr)
    THEN IF instr.op \in TERMINATORS
         THEN [cur_block |-> <<>>,
               blocks |-> Append(st.blocks, Append(st.cur_block, instr))]
         ELSE [cur_block |-> Append(st.cur_block, instr), blocks |-> st.blocks]
    ELSE [cur_block |-> <<instr>>, blocks |-> Append(st.blocks, st.cur_block)]

\* form_blocks, the body of its for-loop: st is [cur_block, blocks]
form_blocks_step(st, instr) ==
    IF HasOp(instr)
    THEN IF instr.op \in TERMINATORS
         THEN [cur_block |-> <<>>,
               blocks |-> Append(st.blocks, Append(st.cur_block, instr))]
         ELSE [cur_block |-> Append(st.cur_block, instr), blocks |-> st.blocks]
    ELSE [cur_block |-> <<instr>>,
          blocks |-> IF st.cur_block # <<>>
                     THEN Append(st.blocks, st.cur_block)
                     ELSE st.blocks]

\* form_blocks, after the loop: produce the final block, if any
form_blocks_final(st) ==
    IF st.cur_block # <<>> THEN Append(st.blocks, st.cur_block) ELSE st.blocks

RECURSIVE form_blocks_loop(_, _)
form_blocks_loop(st, rest) ==
    IF rest = <<>> THEN st
    ELSE form_blocks_loop(form_blocks_step(st, Head(rest)), Tail(rest))

\* list(form_blocks(instrs))
form_blocks(is) ==
    form_blocks_final(form_blocks_loop([cur_block |-> <<>>, blocks |-> <<>>], is))

-----------------------------------------------------------------------------
(* dataflow/dataflow.py: labels, CFG, predecessors *)

RECURSIVE get_block_labels_from(_, _, _)
\* get_block_labels, the loop from block index i (0-based) on
get_block_labels_from(bs, i, label_names) ==
    IF i >= Len(bs) THEN <<>>
    ELSE LET block == bs[i + 1]
             label == IF ~HasOp(block[1]) THEN block[1].label
                      ELSE fresh("block." \o ToString(i), label_names)
         IN  <<label>> \o get_block_labels_from(bs, i + 1, label_names \cup {label})

get_block_labels(bs) == get_block_labels_from(bs, 0, {})

\* get_cfg reads last_instr['op']: a block that ends in a label raises KeyError
get_cfg_raises(bs) == \E i \in 1..Len(bs) : ~HasOp(Last(bs[i]))

\* get_cfg: the successor list of block i (1-based)
get_cfg_successors(bs, labels, i) ==
    LET last_instr == Last(bs[i]) IN
    IF last_instr.op = "jmp" THEN <<last_instr.labels[1]>>
    ELSE IF last_instr.op = "br" THEN last_instr.labels
    ELSE IF i < Len(bs) THEN <<labels[i + 1]>> ELSE <<>>

RECURSIVE get_cfg_from(_, _, _, _)
get_cfg_from(bs, labels, i, acc) ==
    IF i > Len(bs) THEN acc
    ELSE get_cfg_from(bs, labels, i + 1,
                      DictSet(acc, labels[i], get_cfg_successors(bs, labels, i)))

get_cfg(bs, labels) == get_cfg_from(bs, labels, 1, <<>>)

RECURSIVE get_predecessor_first_only(_, _, _)
\* get_predecessor_from looking at the first successor of each block only
get_predecessor_first_only(g, label, i) ==
    IF i > Len(g) THEN <<>>
    ELSE (IF g[i].v # <<>> /\ label = g[i].v[1] THEN <<g[i].k>> ELSE <<>>)
         \o get_predecessor_first_only(g, label, i + 1)

RECURSIVE get_predecessor_from(_, _, _)
get_predecessor_from(g, label, i) ==
    IF i > Len(g) THEN <<>>
    ELSE (IF label \in Range(g[i].v) THEN <<g[i].k>> ELSE <<>>)
         \o get_predecessor_from(g, label, i + 1)

\* get_predecessor: [label for label, succ in cfg.items() if curr_label in succ]
get_predecessor(g, label) == get_predecessor_from(g, label, 1)

-----------------------------------------------------------------------------
(* memory/dse.py: labels, CFG, predecessors *)

\* initialize_labels: the labels list
initialize_labels(bs) ==
    [i \in 1..Len(bs) |->
        IF ~HasOp(bs[i][1]) THEN bs[i][1].label
        ELSE "<bb" \o ToString(i - 1) \o ">"]

\* add_cfg_edge / the elif of build_cfg_edges: what block i appends to cfg[label]
add_cfg_edge(bs, labels, i) ==
    LET last_instr == Last(bs[i]) IN
    IF HasOp(last_instr)
    THEN IF last_instr.op = "br" THEN last_instr.labels
         ELSE IF last_instr.op = "jmp" THEN <<last_instr.labels[1]>>
         ELSE IF i < Len(bs) THEN <<labels[i + 1]>> ELSE <<>>
    ELSE IF i < Len(bs) THEN <<labels[i + 1]>> ELSE <<>>

RECURSIVE build_cfg_edges_from(_, _, _, _)
build_cfg_edges_from(bs, labels, i, acc) ==
    IF i > Len(bs) THEN acc
    ELSE build_cfg_edges_from(bs, labels, i + 1,
            DictSet(acc, labels[i],
                    DictGet(acc, labels[i]) \o add_cfg_edge(bs, labels, i)))

RECURSIVE empty_edges(_, _)
\* {label: [] for label in labels}
empty_edges(labels, acc) ==
    IF labels = <<>> THEN acc
    ELSE empty_edges(Tail(labels), DictSet(acc, Head(labels), <<>>))

\* build_cfg_edges
build_cfg_edges(bs, labels) ==
    build_cfg_edges_from(bs, labels, 1, empty_edges(labels, <<>>))

\* merge_predecessor_states: preds = [pred for pred in cfg if label in cfg[pred]]
dse_preds(g, label) ==
    SelectSeq(DictKeys(g), LAMBDA pred : label \in Range(DictGet(g, pred)))

-----------------------------------------------------------------------------
(* SpecBlocks: form_blocks, then one of the two CFG builders, then a       *)
(* predecessor scan for one label.                                         *)

\* the instructions the block builder is run on
BlockAlphabet ==
    { Label("A"), Label("B"), Label("block.00"),
      Instr("jmp", "", <<>>, 0, <<"A">>),
      Instr("br", "", <<"c">>, 0, <<"B", "A">>),
      Instr("ret", "", <<>>, 0, <<>>),
      Instr("nop", "", <<>>, 0, <<>>) }

InitBlocks ==
    /\ input \in SeqsUpTo(BlockAlphabet, MaxInstrs)
    /\ instrs = input
    /\ pc = "form_blocks"
    /\ cur_block = <<>>
    /\ blocks = <<>>
    /\ pos = 1
    /\ block_labels = <<>>
    /\ cfg = <<>>
    /\ curr_label = ""
    /\ preds = <<>>
    /\ IdleDF /\ IdleLVN /\ IdleDCE /\ IdleDSE /\ IdleLDCE /\ IdleLICM

\* form_blocks: one iteration of `for instr in instrs`
FormBlocksIter ==
    /\ pc = "form_blocks"
    /\ pos <= Len(instrs)
    /\ LET st == form_blocks_step([cur_block |-> cur_block, blocks |-> blocks],
                                  instrs[pos])
       IN  /\ cur_block' = st.cur_block
           /\ blocks' = st.blocks
    /\ pos' = pos + 1
    /\ UNCHANGED <<pc, input, instrs, cfgVars, restBlocks>>

\* form_blocks: the loop is over; the final block, if any, is produced
FormBlocksEnd ==
    /\ pc = "form_blocks"
    /\ pos > Len(instrs)
    /\ blocks' = form_blocks_final([cur_block |-> cur_block, blocks |-> blocks])
    /\ cur_block' = <<>>
    /\ pc' = "blocks"
    /\ UNCHANGED <<input, instrs, pos, cfgVars, restBlocks>>

\* dataflow.py run_df: get_block_labels and get_cfg
RunGetCfg ==
    /\ pc = "blocks"
    /\ ~get_cfg_raises(blocks)
    /\ block_labels' = get_block_labels(blocks)
    /\ cfg' = get_cfg(blocks, block_labels')
    /\ pc' = "cfg"
    /\ UNCHANGED <<input, instrs, blockVars, curr_label, preds, restBlocks>>

\* dataflow.py run_df: get_cfg raises KeyError on last_instr['op']
RunGetCfgKeyError ==
    /\ pc = "blocks"
    /\ get_cfg_raises(blocks)
    /\ block_labels' = get_block_labels(blocks)
    /\ pc' = "KeyError"
    /\ UNCHANGED <<input, instrs, blockVars, cfg, curr_label, preds, restBlocks>>

\* dse.py construct_cfg
ConstructCfg ==
    /\ pc = "blocks"
    /\ block_labels' = initialize_labels(blocks)
    /\ cfg' = build_cfg_edges(blocks, block_labels')
    /\ pc' = "cfg_dse"
    /\ UNCHANGED <<input, instrs, blockVars, curr_label, preds, restBlocks>>

\* dataflow.py: get_predecessor(cfg, curr_label) for one label of the CFG
GetPredecessor ==
    /\ pc = "cfg"
    /\ \E label \in Range(DictKeys(cfg)) :
          /\ curr_label' = label
          /\ preds' = get_predecessor(cfg, label)
    /\ pc' = "preds"
    /\ UNCHANGED <<input, instrs, blockVars, block_labels, cfg, restBlocks>>

\* dse.py merge_predecessor_states: the preds list for one label of the CFG
MergePredecessorStates ==
    /\ pc = "cfg_dse"
    /\ \E label \in Range(DictKeys(cfg)) :
          /\ curr_label' = label
          /\ preds' = dse_preds(cfg, label)
    /\ pc' = "preds_dse"
    /\ UNCHANGED <<input, instrs, blockVars, block_labels, cfg, restBlocks>>

NextBlocks ==
    \/ FormBlocksIter
    \/ FormBlocksEnd
    \/ RunGetCfg
    \/ RunGetCfgKeyError
    \/ ConstructCfg
    \/ GetPredecessor
    \/ MergePredecessorStates

SpecBlocks == InitBlocks /\ [][NextBlocks]_vars

CfgBuilt == pc \in {"cfg", "cfg_dse", "preds", "preds_dse"}

\* C1: concatenating the blocks yielded by form_blocks, in order, gives the
\* input list back: every instruction is in exactly one block, none is
\* duplicated, dropped or reordered (while the loop runs, the yielded blocks
\* and the pending block are the prefix of the input read so far).
C1_ConcatReproducesInput ==
    /\ pc = "form_blocks" =>
          flatten(blocks) \o cur_block = SubSeq(input, 1, pos - 1)
    /\ pc # "form_blocks" => flatten(blocks) = input

\* form_blocks has returned at least three blocks for an input that holds a
\* label, a terminator and an ordinary operation
C1_Witness ==
    /\ pc = "blocks"
    /\ Len(blocks) >= 3
    /\ \E i, j, k \in 1..Len(input) :
          /\ ~HasOp(input[i])
          /\ input[j].op \in TERMINATORS
          /\ input[k].op = "nop"

\* C2: every block yielded by form_blocks is non-empty, has a terminator only
\* as its last instruction and a label only as its first instruction.
C2_BlocksWellFormed ==
    \A n \in 1..Len(blocks) :
        /\ blocks[n] # <<>>
        /\ \A k \in 1..Len(blocks[n]) :
              /\ blocks[n][k].op \in TERMINATORS => k = Len(blocks[n])
              /\ ~HasOp(blocks[n][k]) => k = 1

\* form_blocks has returned for an input where a label directly follows a
\* terminator and whose last instruction is a terminator
C2_Witness ==
    /\ pc = "blocks"
    /\ input # <<>>
    /\ Last(input).op \in TERMINATORS
    /\ \E k \in 1..(Len(input) - 1) :
          input[k].op \in TERMINATORS /\ ~HasOp(input[k + 1])

\* the successors of block i as the design states them
StatedSuccessors(i) ==
    LET last_instr == Last(blocks[i]) IN
    IF last_instr.op = "jmp" THEN <<last_instr.labels[1]>>
    ELSE IF last_instr.op = "br" THEN last_instr.labels
    ELSE IF last_instr.op = "ret" THEN <<>>
    ELSE IF i < Len(blocks) THEN <<block_labels[i + 1]>> ELSE <<>>

\* C3: in the CFG of either builder the successors of a block are given by
\* its last instruction: jmp -> its target, br -> both targets in source
\* order, ret -> none, anything else -> the next block, or none if last
\* (stated for the blocks whose label no other block has).
C3_SuccessorsByLastInstr ==
    CfgBuilt =>
        \A i \in 1..Len(blocks) :
            (\A j \in 1..Len(blocks) : block_labels[j] = block_labels[i] => j = i)
                => DictGet(cfg, block_labels[i]) = StatedSuccessors(i)

\* C4: the predecessor list computed for a label of the CFG holds exactly the
\* labels p with the label among the successors of p, each once.
C4_PredecessorsAreInverse ==
    pc \in {"preds", "preds_dse"} =>
        /\ Range(preds) =
              {p \in Range(DictKeys(cfg)) : curr_label \in Range(DictGet(cfg, p))}
        /\ Cardinality(Range(preds)) = Len(preds)

\* get_predecessor has found two predecessors, the second through the
\* second target of a br
C4_Witness ==
    /\ pc = "preds"
    /\ Len(preds) >= 2
    /\ \E p \in Range(preds) :
          Len(DictGet(cfg, p)) = 2 /\ DictGet(cfg, p)[2] = curr_label

-----------------------------------------------------------------------------
(* The dataflow instances: lattice values, merge and transfer functions.   *)
(* A set() is a set of names; a dict() is a function on its keys.          *)

\* longest instruction list the dataflow solvers are run on
MaxDfInstrs == 4

\* the '?' of dataflow.py's constant propagation
UNKNOWN == -1

\* the None of loop/dataflow.py's constant propagation
None == -2

\* d[k] = v on a dict whose key order is never read
DictPut(d, k, v) == [x \in DOMAIN d \cup {k} |-> IF x = k THEN v ELSE d[x]]

RECURSIVE SetToSeq(_)
\* the elements of a set, listed (`for x in some_set`)
SetToSeq(S) ==
    IF S = {} THEN <<>>
    ELSE LET x == CHOOSE y \in S : TRUE IN <<x>> \o SetToSeq(S \ {x})

\* dataflow.py union: set().union(*sets)
union(sets) == UNION Range(sets)

\* dataflow.py cprop_merge, the two inner-loop statements for one dict d
cprop_merge_into(out, d) ==
    [var \in DOMAIN out \cup DOMAIN d |->
        IF var \in DOMAIN d
        THEN IF var \in DOMAIN out
             THEN (IF out[var] = d[var] THEN d[var] ELSE UNKNOWN)
             ELSE d[var]
        ELSE out[var]]

RECURSIVE cprop_merge_from(_, _)
cprop_merge_from(out, dicts) ==
    IF dicts = <<>> THEN out
    ELSE cprop_merge_from(cprop_merge_into(out, Head(dicts)), Tail(dicts))

\* dataflow.py cprop_merge
cprop_merge(dicts) == cprop_merge_from(EmptyDict, dicts)

RECURSIVE live_func_from(_, _, _)
\* dataflow.py live_func, the loop over reversed(block) from index i down
live_func_from(block, i, acc) ==
    IF i = 0 THEN acc
    ELSE live_func_from(block, i - 1,
                        (acc \ {block[i].dest}) \cup Range(block[i].args))

\* dataflow.py live_func
live_func(block, out) == live_func_from(block, Len(block), out)

RECURSIVE cprop_func_from(_, _, _)
cprop_func_from(block, i, acc) ==
    IF i > Len(block) THEN acc
    ELSE cprop_func_from(block, i + 1,
            IF HasDest(block[i])
            THEN DictPut(acc, block[i].dest,
                         IF block[i].op = "const" THEN block[i].value ELSE UNKNOWN)
            ELSE acc)

\* dataflow.py cprop_func
cprop_func(block, in) == cprop_func_from(block, 1, in)

\* loop/dataflow.py union_sets
union_sets(l) == UNION Range(l)

\* loop/dataflow.py merge_dicts
merge_dicts(l) ==
    [k \in UNION {DOMAIN l[i] : i \in 1..Len(l)} |->
        UNION {IF k \in DOMAIN l[i] THEN l[i][k] ELSE {} : i \in 1..Len(l)}]

\* loop/dataflow.py merge_consts, the inner-loop statements for one dict m
merge_consts_into(result, m) ==
    [k \in DOMAIN result \cup DOMAIN m |->
        IF k \in DOMAIN m
        THEN IF k \notin DOMAIN result THEN m[k]
             ELSE (IF result[k] # m[k] THEN None ELSE result[k])
        ELSE result[k]]

RECURSIVE merge_consts_from(_, _)
merge_consts_from(result, l) ==
    IF l = <<>> THEN result
    ELSE merge_consts_from(merge_consts_into(result, Head(l)), Tail(l))

\* loop/dataflow.py merge_consts
merge_consts(l) == merge_consts_from(EmptyDict, l)

\* loop/dataflow.py get_var_defs: {instr["dest"]: instr for instr in instrs if "dest" in instr}
get_var_defs(is) ==
    [var \in {is[i].dest : i \in {j \in 1..Len(is) : HasDest(is[j])}} |->
        is[CHOOSE i \in 1..Len(is) :
              /\ is[i].dest = var
              /\ \A j \in (i + 1)..Len(is) : is[j].dest # var]]

RECURSIVE join_prefixed(_, _)
\* "".join(f"{prefix}{a}" for a in l)
join_prefixed(prefix, l) ==
    IF l = <<>> THEN "" ELSE prefix \o Head(l) \o join_prefixed(prefix, Tail(l))

\* loop/dataflow.py format_instruction (no instruction of the model has funcs)
format_instruction(defn) ==
    defn.op \o join_prefixed(" ", defn.args) \o join_prefixed(" .", defn.labels)
            \o (IF defn.op = "const" THEN " " \o ToString(defn.value) ELSE "")

\* loop/dataflow.py reaching_defs (every destination of the model has type int)
reaching_defs(is, inv) ==
    LET defs == get_var_defs(is) IN
    [var \in DOMAIN inv \cup DOMAIN defs |->
        IF var \in DOMAIN defs
        THEN {var \o ": int = " \o format_instruction(defs[var]) \o ";"}
        ELSE inv[var]]

RECURSIVE const_prop_from(_, _, _)
const_prop_from(is, i, acc) ==
    IF i > Len(is) THEN acc
    ELSE const_prop_from(is, i + 1,
            IF HasDest(is[i])
            THEN DictPut(acc, is[i].dest,
                         IF is[i].op = "const" THEN is[i].value ELSE None)
            ELSE acc)

\* loop/dataflow.py const_prop
const_prop(is, inv) == const_prop_from(is, 1, inv)

RECURSIVE live_vars_from(_, _, _)
live_vars_from(is, i, acc) ==
    IF i = 0 THEN acc
    ELSE live_vars_from(is, i - 1,
            (IF HasDest(is[i]) THEN acc \ {is[i].dest} ELSE acc) \cup Range(is[i].args))

\* loop/dataflow.py live_vars
live_vars(is, inv) == live_vars_from(is, Len(is), inv)

\* ANALYSES of dataflow.py ("live", "cprop"); REACHING_DEFS, CONST_PROP and
\* LIVE_VARS of loop/dataflow.py: the direction, init, merge and transfer
WorklistAnalyses == {"live", "cprop"}
LoopAnalyses == {"REACHING_DEFS", "CONST_PROP", "LIVE_VARS"}

forward(a) == a \in {"cprop", "REACHING_DEFS", "CONST_PROP"}

init(a) == IF a \in {"live", "LIVE_VARS"} THEN {} ELSE EmptyDict

merge(a, vals) ==
    CASE a = "live" -> union(vals)
      [] a = "cprop" -> cprop_merge(vals)
      [] a = "REACHING_DEFS" -> merge_dicts(vals)
      [] a = "CONST_PROP" -> merge_consts(vals)
      [] a = "LIVE_VARS" -> union_sets(vals)

transfer(a, block, v) ==
    CASE a = "live" -> live_func(block, v)
      [] a = "cprop" -> cprop_func(block, v)
      [] a = "REACHING_DEFS" -> reaching_defs(block, v)
      [] a = "CONST_PROP" -> const_prop(block, v)
      [] a = "LIVE_VARS" -> live_vars(block, v)

-----------------------------------------------------------------------------
(* The cfg module that loop/dataflow.py imports (label_blocks, get_cfg,    *)
(* GraphNode), as the design describes it.                                 *)

\* the explicit labels of an instruction list
LabelsOf(is) == {is[i].label : i \in {j \in 1..Len(is) : ~HasOp(is[j])}}

RECURSIVE label_blocks_from(_, _, _)
label_blocks_from(bs, i, names) ==
    IF i > Len(bs) THEN <<>>
    ELSE LET label == IF ~HasOp(bs[i][1]) THEN bs[i][1].label ELSE fresh("b", names)
         IN  <<label>> \o label_blocks_from(bs, i + 1, names \cup {label})

\* label_blocks: a block is named by its leading label, else by a fresh name
\* distinct from all existing labels
label_blocks(bs) == label_blocks_from(bs, 1, LabelsOf(flatten(bs)))

\* the successors of block i: jmp -> its target, br -> both targets,
\* ret -> none, otherwise the next block in program order, if any
graph_successors(bs, labels, i) ==
    LET last_instr == Last(bs[i]) IN
    IF last_instr.op \in {"jmp", "br"} THEN Range(last_instr.labels)
    ELSE IF last_instr.op = "ret" THEN {}
    ELSE IF i < Len(bs) THEN {labels[i + 1]} ELSE {}

\* cfg.get_cfg: label -> GraphNode(predecessors, successors)
graph_of(bs, labels) ==
    [l \in Range(labels) |->
        [successors |-> UNION {graph_successors(bs, labels, i) :
                                  i \in {j \in 1..Len(bs) : labels[j] = l}},
         predecessors |-> {labels[i] : i \in {j \in 1..Len(bs) :
                                  l \in graph_successors(bs, labels, j)}}]]

\* label2block[b]
label2block(b) == blocks[CHOOSE i \in 1..Len(blocks) : block_labels[i] = b]

-----------------------------------------------------------------------------
(* The worklist solvers.  st is [worklist, In, Out].                       *)

\* worklist_algorithm: blocks[block_index] of curr_label
block_of(label) == blocks[CHOOSE i \in 1..Len(blocks) :
                            /\ block_labels[i] = label
                            /\ \A j \in 1..(i - 1) : block_labels[j] # label]

\* worklist_algorithm's loop body without worklist.update(...)
worklist_algorithm_step_no_update(st, label) ==
    LET ps == get_predecessor(cfg, label)
        ss == DictGet(cfg, label)
    IN  IF forward(analysis)
        THEN LET in1 == DictPut(st.In, label,
                          merge(analysis, [i \in 1..Len(ps) |-> st.Out[ps[i]]]))
             IN  [worklist |-> st.worklist \ {label},
                  In  |-> in1,
                  Out |-> DictPut(st.Out, label,
                                  transfer(analysis, block_of(label), in1[label]))]
        ELSE LET out1 == DictPut(st.Out, label,
                          merge(analysis, [i \in 1..Len(ss) |-> st.In[ss[i]]]))
             IN  [worklist |-> st.worklist \ {label},
                  In  |-> DictPut(st.In, label,
                                  transfer(analysis, block_of(label), out1[label])),
                  Out |-> out1]

\* worklist_algorithm's loop body with worklist.update(...) done whether or
\* not the value of the block changed
worklist_algorithm_step_always_requeues(st, label) ==
    LET popped == st.worklist \ {label}
        ps == get_predecessor(cfg, label)
        ss == DictGet(cfg, label)
    IN  IF forward(analysis)
        THEN LET in1 == DictPut(st.In, label,
                          merge(analysis, [i \in 1..Len(ps) |-> st.Out[ps[i]]]))
             IN  [worklist |-> popped \cup Range(ss),
                  In  |-> in1,
                  Out |-> DictPut(st.Out, label,
                                  transfer(analysis, block_of(label), in1[label]))]
        ELSE LET out1 == DictPut(st.Out, label,
                          merge(analysis, [i \in 1..Len(ss) |-> st.In[ss[i]]]))
             IN  [worklist |-> popped \cup Range(ps),
                  In  |-> DictPut(st.In, label,
                                  transfer(analysis, block_of(label), out1[label])),
                  Out |-> out1]

\* dataflow.py worklist_algorithm: the loop body for curr_label = label
worklist_algorithm_step(st, label) ==
    LET popped == st.worklist \ {label}
        ps == get_predecessor(cfg, label)
        ss == DictGet(cfg, label)
    IN  IF forward(analysis)
        THEN LET in1 == DictPut(st.In, label,
                          merge(analysis, [i \in 1..Len(ps) |-> st.Out[ps[i]]]))
                 Out_old == st.Out[label]
                 new == transfer(analysis, block_of(label), in1[label])
             IN  [worklist |-> IF new # Out_old THEN popped \cup Range(ss) ELSE popped,
                  In  |-> in1,
                  Out |-> DictPut(st.Out, label, new)]
        ELSE LET out1 == DictPut(st.Out, label,
                          merge(analysis, [i \in 1..Len(ss) |-> st.In[ss[i]]]))
                 In_old == st.In[label]
                 new == transfer(analysis, block_of(label), out1[label])
             IN  [worklist |-> IF new # In_old THEN popped \cup Range(ps) ELSE popped,
                  In  |-> DictPut(st.In, label, new),
                  Out |-> out1]

\* data_flow_analysis's loop body with the worklist updated on the near side
data_flow_analysis_step_near_side(st, b) ==
    LET xs == SetToSeq(IF forward(analysis) THEN graph[b].predecessors
                       ELSE graph[b].successors)
        ins1 == DictPut(st.In, b, merge(analysis, [i \in 1..Len(xs) |-> st.Out[xs[i]]]))
        new_outs == transfer(analysis, label2block(b), ins1[b])
    IN  IF st.Out[b] # new_outs
        THEN [worklist |-> (st.worklist \ {b}) \cup
                             (IF forward(analysis) THEN graph[b].predecessors
                              ELSE graph[b].successors),
              In |-> ins1, Out |-> DictPut(st.Out, b, new_outs)]
        ELSE [worklist |-> st.worklist \ {b}, In |-> ins1, Out |-> st.Out]

\* loop/dataflow.py data_flow_analysis: the loop body for the popped b
\* (In holds ins, Out holds outs)
data_flow_analysis_step(st, b) ==
    LET xs == SetToSeq(IF forward(analysis) THEN graph[b].predecessors
                       ELSE graph[b].successors)
        ins1 == DictPut(st.In, b, merge(analysis, [i \in 1..Len(xs) |-> st.Out[xs[i]]]))
        new_outs == transfer(analysis, label2block(b), ins1[b])
    IN  IF st.Out[b] # new_outs
        THEN [worklist |-> (st.worklist \ {b}) \cup
                             (IF forward(analysis) THEN graph[b].successors
                              ELSE graph[b].predecessors),
              In |-> ins1, Out |-> DictPut(st.Out, b, new_outs)]
        ELSE [worklist |-> st.worklist \ {b}, In |-> ins1, Out |-> st.Out]

\* data_flow_analysis: return (ins, outs) if forward else (outs, ins)
data_flow_analysis_return(st) ==
    IF forward(analysis) THEN [worklist |-> st.worklist, In |-> st.In, Out |-> st.Out]
    ELSE [worklist |-> st.worklist, In |-> st.Out, Out |-> st.In]

-----------------------------------------------------------------------------
(* SpecDF: a solver is run on the CFG of a function.                       *)

\* the instructions of the functions the solvers are run on
DfAlphabet ==
    { Label("A"), Label("B"),
      Instr("jmp", "", <<>>, 0, <<"A">>),
      Instr("br", "", <<"x">>, 0, <<"B", "A">>),
      Instr("const", "x", <<>>, 1, <<>>),
      Instr("const", "x", <<>>, 2, <<>>),
      Instr("add", "y", <<"x", "y">>, 0, <<>>) }

\* a function the passes accept: no label twice, every branch target a label
WellFormed(is) ==
    /\ \A i, j \in 1..Len(is) : (~HasOp(is[i]) /\ is[i] = is[j]) => i = j
    /\ \A i \in 1..Len(is) : Range(is[i].labels) \subseteq LabelsOf(is)

\* the solver's state on entry: the worklist holds every label
solver_entry(a, labels) ==
    [worklist |-> Range(labels),
     In  |-> IF a \in WorklistAnalyses THEN [l \in Range(labels) |-> init(a)]
             ELSE EmptyDict,
     Out |-> [l \in Range(labels) |-> init(a)]]

InitDF ==
    /\ input \in SeqsUpTo(DfAlphabet, MaxDfInstrs)
    /\ WellFormed(input)
    /\ instrs = input
    /\ analysis \in WorklistAnalyses \cup LoopAnalyses
    /\ blocks = form_blocks(input)
    /\ analysis \in WorklistAnalyses => ~get_cfg_raises(blocks)
    /\ block_labels = IF analysis \in WorklistAnalyses THEN get_block_labels(blocks)
                      ELSE label_blocks(blocks)
    /\ cfg = IF analysis \in WorklistAnalyses THEN get_cfg(blocks, block_labels)
             ELSE <<>>
    /\ graph = IF analysis \in LoopAnalyses THEN graph_of(blocks, block_labels)
               ELSE EmptyDict
    /\ LET st == solver_entry(analysis, block_labels)
       IN  worklist = st.worklist /\ In = st.In /\ Out = st.Out
    /\ pc = "worklist"
    /\ cur_block = <<>>
    /\ pos = 1
    /\ curr_label = ""
    /\ preds = <<>>
    /\ IdleLVN /\ IdleDCE /\ IdleDSE /\ IdleLDCE /\ IdleLICM

\* worklist_algorithm: one iteration of `while worklist`, for any pop()
WorklistStep ==
    /\ pc = "worklist"
    /\ analysis \in WorklistAnalyses
    /\ \E label \in worklist :
          LET st == worklist_algorithm_step(
                        [worklist |-> worklist, In |-> In, Out |-> Out], label)
          IN  /\ curr_label' = label
              /\ worklist' = st.worklist
              /\ In' = st.In
              /\ Out' = st.Out
    /\ UNCHANGED <<pc, input, instrs, blockVars, block_labels, cfg, preds,
                   analysis, graph, restDF>>

\* worklist_algorithm: the worklist is empty, return In, Out
WorklistReturn ==
    /\ pc = "worklist"
    /\ analysis \in WorklistAnalyses
    /\ worklist = {}
    /\ pc' = "returned"
    /\ UNCHANGED <<input, instrs, blockVars, cfgVars, dfVars, restDF>>

\* data_flow_analysis: one iteration of `while worklist`, for any pop()
DataFlowStep ==
    /\ pc = "worklist"
    /\ analysis \in LoopAnalyses
    /\ \E b \in worklist :
          LET st == data_flow_analysis_step(
                        [worklist |-> worklist, In |-> In, Out |-> Out], b)
          IN  /\ curr_label' = b
              /\ worklist' = st.worklist
              /\ In' = st.In
              /\ Out' = st.Out
    /\ UNCHANGED <<pc, input, instrs, blockVars, block_labels, cfg, preds,
                   analysis, graph, restDF>>

\* data_flow_analysis: the worklist is empty, return the two maps
DataFlowReturn ==
    /\ pc = "worklist"
    /\ analysis \in LoopAnalyses
    /\ worklist = {}
    /\ LET st == data_flow_analysis_return(
                     [worklist |-> worklist, In |-> In, Out |-> Out])
       IN  In' = st.In /\ Out' = st.Out
    /\ pc' = "returned"
    /\ UNCHANGED <<input, instrs, blockVars, cfgVars, analysis, graph, worklist, restDF>>

NextDF ==
    \/ WorklistStep
    \/ WorklistReturn
    \/ DataFlowStep
    \/ DataFlowReturn

SpecDF == InitDF /\ [][NextDF]_vars

\* the successors and predecessors of a label in the CFG the solver ran on
SuccsOf(b) ==
    IF analysis \in WorklistAnalyses THEN Range(DictGet(cfg, b))
    ELSE graph[b].successors

PredsOf(b) == {p \in Range(block_labels) : b \in SuccsOf(p)}

ValuesAt(f, S) == LET xs == SetToSeq(S) IN [i \in 1..Len(xs) |-> f[xs[i]]]

\* C5: when a solver returns, In and Out are a fixpoint at every block: in
\* forward mode In[b] = merge(Out[p], p a predecessor of b) and
\* Out[b] = transfer(b, In[b]); in backward mode Out[b] = merge(In[s], s a
\* successor of b) and In[b] = transfer(b, Out[b]).
C5_ResultIsFixpoint ==
    pc = "returned" =>
        /\ DOMAIN In = Range(block_labels)
        /\ DOMAIN Out = Range(block_labels)
        /\ \A b \in Range(block_labels) :
              IF forward(analysis)
              THEN /\ In[b] = merge(analysis, ValuesAt(Out, PredsOf(b)))
                   /\ Out[b] = transfer(analysis, label2block(b), In[b])
              ELSE /\ Out[b] = merge(analysis, ValuesAt(In, SuccsOf(b)))
                   /\ In[b] = transfer(analysis, label2block(b), Out[b])

\* a solver has returned for a CFG in which a block with two predecessors is
\* on a cycle, with a value at that block that is not the initial one
C5_Witness ==
    /\ pc = "returned"
    /\ \E b \in Range(block_labels) :
          /\ Cardinality(PredsOf(b)) >= 2
          /\ b \in PredsOf(b)
          /\ In[b] # init(analysis)
          /\ Out[b] # In[b]

RECURSIVE solved_in_fixed_order(_)
\* the solver run with pop() always taking the same element
solved_in_fixed_order(st) ==
    IF st.worklist = {}
    THEN (IF analysis \in LoopAnalyses THEN data_flow_analysis_return(st) ELSE st)
    ELSE LET b == CHOOSE x \in st.worklist : TRUE
         IN  solved_in_fixed_order(
                 IF analysis \in WorklistAnalyses THEN worklist_algorithm_step(st, b)
                 ELSE data_flow_analysis_step(st, b))

\* C6: the In and Out a solver returns do not depend on the order in which
\* pop() takes the blocks from the worklist: every run returns what the run
\* with one fixed order returns.
C6_ResultIndependentOfPopOrder ==
    pc = "returned" =>
        LET r == solved_in_fixed_order(solver_entry(analysis, block_labels))
        IN  In = r.In /\ Out = r.Out

\* constant propagation has returned for a function of several blocks where
\* a join sees two different constants for x
C6_Witness ==
    /\ pc = "returned"
    /\ analysis \in {"cprop", "CONST_PROP"}
    /\ Len(block_labels) >= 2
    /\ \E b \in Range(block_labels) :
          /\ "x" \in DOMAIN In[b]
          /\ In[b]["x"] \in {UNKNOWN, None}
          /\ Cardinality(PredsOf(b)) >= 2

-----------------------------------------------------------------------------
(* local_opt/lvn.py: local value numbering of one block.                   *)

\* longest block lvn_block is run on
MaxLvnInstrs == 4

\* list.remove(x) when x is in the list
RemoveFirst(s, x) ==
    IF x \notin Range(s) THEN s
    ELSE LET i == CHOOSE k \in 1..Len(s) : s[k] = x /\ \A m \in 1..(k - 1) : s[m] # x
         IN  SubSeq(s, 1, i - 1) \o SubSeq(s, i + 1, Len(s))

\* Value = namedtuple('Value', ['op', 'args']); val = None
Value(op, args) == [op |-> op, args |-> args]
NoValue == [op |-> "", args |-> <<>>]

\* last_writes: out[idx] is True iff instrs[idx] is the last write of its dest
last_writes(is) ==
    [idx \in 1..Len(is) |->
        /\ HasDest(is[idx])
        /\ \A j \in (idx + 1)..Len(is) : is[j].dest # is[idx].dest]

\* get_variables_read_before_write
get_variables_read_before_write(is) ==
    {v \in UNION {Range(is[i].args) : i \in 1..Len(is)} :
        \E i \in 1..Len(is) :
            /\ v \in Range(is[i].args)
            /\ \A j \in 1..(i - 1) : is[j].dest # v}

\* canonicalize without the sort of commutative operations
canonicalize_unsorted(value) == value

\* canonicalize
canonicalize(value) ==
    IF value.op \in {"add", "mul"}
    THEN Value(value.op, SortSeq(value.args, LAMBDA x, y : x < y))
    ELSE value

\* lvn_block with constant loads entered in the value table like computations
lvn_val_with_consts(instr, argnums) ==
    IF HasDest(instr) /\ HasArgs(instr) /\ instr.op # "call"
    THEN canonicalize(Value(instr.op, argnums))
    ELSE IF instr.op = "const" THEN Value("const", <<instr.value>>)
    ELSE NoValue

\* lvn_block: val, the canonical value of an instruction that computes one
lvn_val(instr, argnums) ==
    IF HasDest(instr) /\ HasArgs(instr) /\ instr.op # "call"
    THEN canonicalize(Value(instr.op, argnums))
    ELSE NoValue

\* lvn_block: the body of `for instr, last_write in zip(block, last_writes(block))`.
\* st is [var2num, next_id, value2num, num2vars, num2const]; the result adds
\* the rewritten instruction and the locals argnums, val, num, found.
lvn_step(st, instr, last_write) ==
    LET argvars == instr.args
        argnums == [i \in 1..Len(argvars) |-> st.var2num[argvars[i]]]
        args1 == [i \in 1..Len(argnums) |-> Head(st.num2vars[argnums[i]])]
        n2v == IF HasDest(instr)
               THEN [n \in DOMAIN st.num2vars |-> RemoveFirst(st.num2vars[n], instr.dest)]
               ELSE st.num2vars
        val == lvn_val(instr, argnums)
        found == val # NoValue /\ val \in DOMAIN st.value2num
    IN  IF found
        THEN LET num == st.value2num[val] IN
             [var2num |-> DictPut(st.var2num, instr.dest, num),
              next_id |-> st.next_id,
              value2num |-> st.value2num,
              num2const |-> st.num2const,
              num2vars |-> IF num \in DOMAIN st.num2const THEN n2v
                           ELSE [n2v EXCEPT ![num] = Append(@, instr.dest)],
              instr |-> IF num \in DOMAIN st.num2const
                        THEN [instr EXCEPT !.op = "const", !.value = st.num2const[num],
                                           !.args = <<>>]
                        ELSE [instr EXCEPT !.op = "id", !.args = <<Head(n2v[num])>>],
              argnums |-> argnums, val |-> val, num |-> num, found |-> TRUE]
        ELSE IF HasDest(instr)
        THEN LET newnum == st.next_id
                 var == IF last_write THEN instr.dest
                        ELSE "lvn." \o ToString(newnum)
             IN
             [var2num |-> DictPut(st.var2num, instr.dest, newnum),
              next_id |-> st.next_id + 1,
              value2num |-> IF val # NoValue THEN DictPut(st.value2num, val, newnum)
                            ELSE st.value2num,
              num2const |-> IF instr.op = "const"
                            THEN DictPut(st.num2const, newnum, instr.value)
                            ELSE st.num2const,
              num2vars |-> DictPut(n2v, newnum, <<var>>),
              instr |-> [instr EXCEPT !.args = args1, !.dest = var],
              argnums |-> argnums, val |-> val, num |-> newnum, found |-> FALSE]
        ELSE [var2num |-> st.var2num,
              next_id |-> st.next_id,
              value2num |-> st.value2num,
              num2const |-> st.num2const,
              num2vars |-> n2v,
              instr |-> [instr EXCEPT !.args = args1],
              argnums |-> argnums, val |-> val, num |-> -1, found |-> FALSE]

\* the blocks lvn_block is run on
LvnAlphabet ==
    { Instr("const", "a", <<>>, 4, <<>>),
      Instr("const", "b", <<>>, 4, <<>>),
      Instr("add", "c", <<"a", "b">>, 0, <<>>),
      Instr("add", "c", <<"b", "a">>, 0, <<>>),
      Instr("id", "c", <<"a">>, 0, <<>>),
      Instr("add", "b", <<"c", "c">>, 0, <<>>),
      Instr("call", "c", <<"a">>, 0, <<>>),
      Instr("print", "", <<"c">>, 0, <<>>) }

InitLVN ==
    /\ input \in SeqsUpTo(LvnAlphabet, MaxLvnInstrs)
    /\ blk = input
    /\ pc = "lvn_seed"
    /\ pos = 1
    /\ var2num = EmptyDict
    /\ next_id = 0
    /\ value2num = EmptyDict
    /\ num2vars = EmptyDict
    /\ num2const = EmptyDict
    /\ lvn_locals = <<>>
    /\ instrs = <<>>
    /\ IdleBlocks /\ IdleCfg /\ IdleDF /\ IdleDCE /\ IdleDSE /\ IdleLDCE /\ IdleLICM

\* lvn_block: `for var in get_variables_read_before_write(block)`: every
\* variable read before it is written gets a number, in the order in which
\* the set happens to be iterated
LvnSeed ==
    /\ pc = "lvn_seed"
    /\ LET rbw == get_variables_read_before_write(blk)
           n == Cardinality(rbw)
       IN  \E order \in {f \in [1..n -> rbw] : Range(f) = rbw} :
              /\ var2num' = [v \in rbw |-> (CHOOSE i \in 1..n : order[i] = v) - 1]
              /\ num2vars' = [k \in 0..(n - 1) |-> <<order[k + 1]>>]
              /\ next_id' = n
    /\ pc' = "lvn_loop"
    /\ UNCHANGED <<input, blk, pos, value2num, num2const, lvn_locals, restLVN>>

\* lvn_block: one iteration of the main loop, on block[pos]
LvnInstr ==
    /\ pc = "lvn_loop"
    /\ pos <= Len(blk)
    /\ LET r == lvn_step([var2num |-> var2num, next_id |-> next_id,
                          value2num |-> value2num, num2vars |-> num2vars,
                          num2const |-> num2const],
                         blk[pos], last_writes(input)[pos])
       IN  /\ var2num' = r.var2num
           /\ next_id' = r.next_id
           /\ value2num' = r.value2num
           /\ num2vars' = r.num2vars
           /\ num2const' = r.num2const
           /\ blk' = [blk EXCEPT ![pos] = r.instr]
           /\ lvn_locals' = Append(lvn_locals,
                  [argnums |-> r.argnums, val |-> r.val, num |-> r.num,
                   found |-> r.found])
    /\ pos' = pos + 1
    /\ UNCHANGED <<pc, input, restLVN>>

\* lvn_block: the loop is over
LvnReturn ==
    /\ pc = "lvn_loop"
    /\ pos > Len(blk)
    /\ pc' = "lvn_done"
    /\ UNCHANGED <<input, pos, lvnVars, restLVN>>

NextLVN ==
    \/ LvnSeed
    \/ LvnInstr
    \/ LvnReturn

SpecLVN == InitLVN /\ [][NextLVN]_vars

\* the block a = const 4; b = const 4; c = add a b
TwoEqualConstants ==
    << Instr("const", "a", <<>>, 4, <<>>),
       Instr("const", "b", <<>>, 4, <<>>),
       Instr("add", "c", <<"a", "b">>, 0, <<>>) >>

\* C7 as stated: in a = const 4; b = const 4; c = add a b local value
\* numbering rewrites the second constant load into b = id a.
C7_SecondConstantBecomesCopy ==
    (pc = "lvn_done" /\ input = TwoEqualConstants) =>
        /\ blk[2].op = "id"
        /\ blk[2].args = <<"a">>
        /\ blk[2].dest = "b"

\* C7, amended: a constant load is never looked up in the value table: it
\* stays the same constant load and gets a value number of its own; the block
\* a = const 4; b = const 4; c = add a b is returned unchanged, a and b with
\* different value numbers.
C7_ConstantLoadsKeepOwnNumbers ==
    /\ \A i \in 1..Len(lvn_locals) :
          input[i].op = "const" =>
              /\ ~lvn_locals[i].found
              /\ blk[i].op = "const" /\ blk[i].value = input[i].value
              /\ \A j \in 1..(i - 1) : HasDest(input[j]) =>
                                          lvn_locals[j].num # lvn_locals[i].num
    /\ (pc = "lvn_done" /\ input = TwoEqualConstants) =>
          /\ blk = input
          /\ var2num["a"] # var2num["b"]

\* lvn_block has returned for a = const 4; b = const 4; c = add a b
C7_Witness == pc = "lvn_done" /\ input = TwoEqualConstants

\* instruction i of the input has a destination and arguments and is no call
Computes(i) == HasDest(input[i]) /\ HasArgs(input[i]) /\ input[i].op # "call"

\* opcode and operand value numbers, the operands sorted for add and mul
OperandNumbers(i) ==
    IF input[i].op \in {"add", "mul"}
    THEN SortSeq(lvn_locals[i].argnums, LAMBDA x, y : x < y)
    ELSE lvn_locals[i].argnums

SameValue(j, i) ==
    input[j].op = input[i].op /\ OperandNumbers(j) = OperandNumbers(i)

\* in the rewritten block, variable r holds at instruction i what was written
\* with the value number of instruction j
HoldsResultOf(r, i, j) ==
    \E k \in 1..(i - 1) :
        /\ blk[k].dest = r
        /\ lvn_locals[k].num = lvn_locals[j].num
        /\ \A m \in (k + 1)..(i - 1) : blk[m].dest # r

\* a computation that repeats an earlier one of the block becomes a copy of a
\* variable that still holds the earlier result
RepeatedValueBecomesCopy ==
    \A i \in 1..Len(lvn_locals) : \A j \in 1..(i - 1) :
        (Computes(i) /\ Computes(j) /\ SameValue(j, i)) =>
            /\ blk[i].op = "id"
            /\ blk[i].dest = input[i].dest
            /\ Len(blk[i].args) = 1
            /\ HoldsResultOf(blk[i].args[1], i, j)

\* instruction i is a copy of the result of instruction j
CopyOf(i, j) == lvn_locals[i].found /\ lvn_locals[i].num = lvn_locals[j].num

\* C8 as stated: a repeated computation becomes a copy of a variable that
\* still holds the earlier result, and when an operand was redefined between
\* the two instructions the later one is not rewritten to a copy of the earlier.
C8_CopyUnlessOperandRedefined ==
    /\ RepeatedValueBecomesCopy
    /\ \A i \in 1..Len(lvn_locals) : \A j \in 1..(i - 1) :
          ( /\ Computes(i) /\ Computes(j)
            /\ input[i].op = input[j].op /\ input[i].args = input[j].args
            /\ \E k \in j..(i - 1) : HasDest(input[k]) /\
                                      input[k].dest \in Range(input[i].args) )
          => ~CopyOf(i, j)

\* C8, amended: a repeated computation becomes a copy of a variable that
\* still holds the earlier result; an instruction is rewritten to a copy only
\* if an earlier instruction has the same opcode and operand value numbers,
\* so a redefinition that gives an operand another value number prevents the
\* rewrite, and one that gives it the same value number again does not.
C8_CopyIffSameValueNumbers ==
    /\ RepeatedValueBecomesCopy
    /\ \A i \in 1..Len(lvn_locals) :
          /\ lvn_locals[i].found =>
                Computes(i) /\ \E j \in 1..(i - 1) : Computes(j) /\ SameValue(j, i)
          /\ \A j \in 1..(i - 1) :
                (Computes(i) /\ Computes(j) /\ ~SameValue(j, i)) => ~CopyOf(i, j)

\* lvn_block has returned for a block where an add repeats an earlier add
\* with the operands swapped, the destination of the earlier add was
\* overwritten in between, and the later add became a copy
C8_Witness ==
    /\ pc = "lvn_done"
    /\ \E i \in 1..Len(input) : \E j \in 1..(i - 1) :
          /\ Computes(i) /\ Computes(j) /\ SameValue(j, i)
          /\ input[i].args # input[j].args
          /\ \E k \in (j + 1)..(i - 1) : input[k].dest = input[j].dest
          /\ blk[i].op = "id"
          /\ blk[i].args # <<input[j].dest>>

-----------------------------------------------------------------------------
(* local_opt/global_dce.py: global dead code elimination.                  *)

\* longest instruction list global_dce is run on
MaxDceInstrs == 4

\* the first for-loop of an iteration: used.update(instr["args"]) for every
\* instruction (used is created once, before the while loop)
dce_collect(u, is) == u \cup UNION {Range(is[i].args) : i \in 1..Len(is)}

\* the second for-loop's body with converge cleared for every definition seen
dce_scan_step_always_clears(st, i) ==
    LET instr == st.instrs[i] IN
    IF HasDest(instr)
    THEN [instrs |-> IF instr.dest \notin st.used THEN RemoveFirst(st.instrs, instr)
                     ELSE st.instrs,
          used |-> st.used, converge |-> FALSE]
    ELSE st

\* the second for-loop's body, for the instruction the list iterator is at
\* (position i of the list as it is now); st is [instrs, used, converge]
dce_scan_step(st, i) ==
    LET instr == st.instrs[i] IN
    IF HasDest(instr) /\ instr.dest \notin st.used
    THEN [instrs |-> RemoveFirst(st.instrs, instr), used |-> st.used,
          converge |-> FALSE]
    ELSE st

\* the functions global_dce is run on
DceAlphabet ==
    { Instr("const", "a", <<>>, 1, <<>>),
      Instr("add", "b", <<"a", "a">>, 0, <<>>),
      Instr("id", "c", <<"b">>, 0, <<>>),
      Instr("const", "b", <<>>, 1, <<>>),
      Instr("print", "", <<"c">>, 0, <<>>) }

InitDCE ==
    /\ input \in SeqsUpTo(DceAlphabet, MaxDceInstrs)
    /\ instrs = input
    /\ pc = "dce_while"
    /\ converge = FALSE
    /\ used = {}
    /\ pos = 1
    /\ IdleBlocks /\ IdleCfg /\ IdleDF /\ IdleLVN /\ IdleDSE /\ IdleLDCE /\ IdleLICM

\* `while not converge` is entered: converge = True and the first for-loop
DceIterate ==
    /\ pc = "dce_while"
    /\ ~converge
    /\ converge' = TRUE
    /\ used' = dce_collect(used, instrs)
    /\ pos' = 1
    /\ pc' = "dce_scan"
    /\ UNCHANGED <<input, instrs, restDCE>>

\* the second for-loop: one step of the list iterator
DceScan ==
    /\ pc = "dce_scan"
    /\ pos <= Len(instrs)
    /\ LET st == dce_scan_step([instrs |-> instrs, used |-> used,
                                converge |-> converge], pos)
       IN  /\ instrs' = st.instrs
           /\ converge' = st.converge
    /\ pos' = pos + 1
    /\ UNCHANGED <<pc, input, used, restDCE>>

\* the second for-loop: the iterator is past the end of the list
DceScanEnd ==
    /\ pc = "dce_scan"
    /\ pos > Len(instrs)
    /\ pc' = "dce_while"
    /\ UNCHANGED <<input, instrs, pos, used, converge, restDCE>>

\* `while not converge` is left: global_dce returns
DceReturn ==
    /\ pc = "dce_while"
    /\ converge
    /\ pc' = "dce_done"
    /\ UNCHANGED <<input, instrs, pos, used, converge, restDCE>>

NextDCE ==
    \/ DceIterate
    \/ DceScan
    \/ DceScanEnd
    \/ DceReturn

SpecDCE == InitDCE /\ [][NextDCE]_vars

\* global_dce is a sequential loop: it takes its next step whenever it has one
FairSpecDCE == SpecDCE /\ WF_vars(NextDCE)

\* the variables read by the instructions that remain
ReadByRemaining == UNION {Range(instrs[i].args) : i \in 1..Len(instrs)}

\* C9: when global_dce returns, no remaining instruction has a destination
\* that no remaining instruction reads; so a = const 1; b = add a a, with b
\* read nowhere, loses b's instruction and then a's.
C9_NoDeadDefinitionRemains ==
    pc = "dce_done" =>
        \A i \in 1..Len(instrs) :
            HasDest(instrs[i]) => instrs[i].dest \in ReadByRemaining

\* C10: global_dce terminates; an iteration of the outer loop sets converge
\* and only a step that removes an instruction clears it again, so another
\* iteration runs only after one that removed an instruction.
C10_GlobalDceTerminates ==
    /\ <>(pc = "dce_done")
    /\ [][(pc = "dce_while" /\ pc' = "dce_scan") => converge']_vars
    /\ [][(converge /\ ~converge') => Len(instrs') < Len(instrs)]_vars

\* global_dce has returned after removing two adjacent definitions, the second
\* of which the list iterator skipped when the first was removed
C10_Witness ==
    /\ pc = "dce_done"
    /\ Len(instrs) + 2 <= Len(input)
    /\ \E i \in 1..(Len(input) - 1) :
          /\ HasDest(input[i]) /\ HasDest(input[i + 1])
          /\ input[i] \notin Range(instrs)
          /\ input[i + 1] \notin Range(instrs)

-----------------------------------------------------------------------------
(* memory/dse.py: alias analysis, memory liveness, dead-store elimination. *)

\* longest instruction list optimize_function is run on
MaxDseInstrs == 4

\* alias_map.get(v, set())
PtsGet(m, v) == IF v \in DOMAIN m THEN m[v] ELSE {}

\* the place in func['instrs'] of instruction i of block b: instructions are
\* told apart by identity (id(instr)), which is their place in the list
instr_id(bs, b, i) == Len(flatten(SubSeq(bs, 1, b - 1))) + i

\* collect_alloc_sites: alloc_sites[id(instr)] for the alloc at place g
collect_alloc_sites(is, g) ==
    "alloc_" \o ToString(Cardinality({j \in 1..(g - 1) : is[j].op = "alloc"}))

\* dict(zip(labels, blocks)): the index of the block a label is mapped to
block_index(labels, label) ==
    CHOOSE b \in 1..Len(labels) :
        /\ labels[b] = label
        /\ \A c \in (b + 1)..Len(labels) : labels[c] # label

\* initialize_states: {label: {} for label in labels}
initialize_states(labels) == [l \in Range(labels) |-> EmptyDict]

\* initialize_func_args_state
initialize_func_args_state(args) == [a \in Range(args) |-> {"unknown"}]

\* merge_predecessor_states
merge_predecessor_states(label, g, outs, init_state) ==
    LET ps == Range(dse_preds(g, label)) IN
    IF ps # {}
    THEN [var \in UNION {DOMAIN outs[p] : p \in ps} |->
              UNION {PtsGet(outs[p], var) : p \in ps}]
    ELSE init_state

\* analyze_block, the body of its for-loop; site is alloc_sites[id(instr)]
analyze_instr(state, instr, site) ==
    IF ~HasOp(instr) THEN state
    ELSE IF instr.op = "alloc" /\ HasDest(instr)
    THEN DictPut(state, instr.dest, {site})
    ELSE IF instr.op \in {"id", "ptradd"} /\ HasDest(instr) /\ HasArgs(instr)
    THEN IF instr.args[1] \in DOMAIN state
         THEN DictPut(state, instr.dest, state[instr.args[1]])
         ELSE state
    ELSE IF instr.op \in {"load", "call"} /\ HasDest(instr)
    THEN DictPut(state, instr.dest, {"unknown"})
    ELSE state

RECURSIVE analyze_block_from(_, _, _, _, _)
analyze_block_from(bs, b, i, state, is) ==
    IF i > Len(bs[b]) THEN state
    ELSE analyze_block_from(bs, b, i + 1,
            analyze_instr(state, bs[b][i],
                          collect_alloc_sites(is, instr_id(bs, b, i))), is)

\* analyze_block(block_map[label], in_map, alloc_sites), block b of bs
analyze_block(bs, b, in_map, is) == analyze_block_from(bs, b, 1, in_map, is)

\* alias_analysis, the body of its while-loop; st is [worklist, in_state, out_state]
alias_analysis_step(st, bs, labels, g, init_state, is) ==
    LET label == Head(st.worklist)
        rest == Tail(st.worklist)
        in_map == merge_predecessor_states(label, g, st.out_state, init_state)
        old_out == st.out_state[label]
        out_map == analyze_block(bs, block_index(labels, label), in_map, is)
    IN  [worklist |->
            IF out_map # old_out
            THEN rest \o SelectSeq(DictGet(g, label),
                                   LAMBDA succ : succ \notin Range(rest))
            ELSE rest,
         in_state |-> [st.in_state EXCEPT ![label] = in_map],
         out_state |-> [st.out_state EXCEPT ![label] = out_map]]

\* update_state_based_on_instr
update_state_based_on_instr(state, instr, site) ==
    IF ~HasOp(instr) THEN state
    ELSE IF instr.op = "alloc" /\ HasDest(instr)
    THEN DictPut(state, instr.dest, {site})
    ELSE IF instr.op \in {"id", "ptradd"} /\ HasDest(instr) /\ HasArgs(instr)
    THEN DictPut(state, instr.dest, PtsGet(state, instr.args[1]))
    ELSE IF instr.op \in {"load", "call"} /\ HasDest(instr)
    THEN DictPut(state, instr.dest, {"unknown"})
    ELSE state

RECURSIVE alias_maps_from(_, _, _, _, _)
\* build_alias_info, the inner loop: the alias map before each instruction
alias_maps_from(bs, b, i, state, is) ==
    IF i > Len(bs[b]) THEN <<>>
    ELSE <<state>> \o
         alias_maps_from(bs, b, i + 1,
            update_state_based_on_instr(state, bs[b][i],
                collect_alloc_sites(is, instr_id(bs, b, i))), is)

\* build_alias_info
build_alias_info(in_alias, labels, bs, is) ==
    [l \in Range(labels) |->
        alias_maps_from(bs, block_index(labels, l), 1, in_alias[l], is)]

\* compute_out_set
compute_out_set(g, label, lin) == UNION {lin[succ] : succ \in Range(DictGet(g, label))}

\* analyze_memory_uses, the body of its for-loop
analyze_memory_use(live_set, instr, alias_map) ==
    IF ~HasOp(instr) THEN live_set
    ELSE IF instr.op = "ret"
    THEN IF HasArgs(instr) THEN live_set \cup PtsGet(alias_map, instr.args[1])
         ELSE live_set
    ELSE IF instr.op \in {"store", "load"}
    THEN live_set \cup PtsGet(alias_map, instr.args[1])
    ELSE IF instr.op = "free"
    THEN live_set \ PtsGet(alias_map, instr.args[1])
    ELSE IF instr.op = "call"
    THEN live_set \cup UNION {PtsGet(alias_map, a) : a \in Range(instr.args)}
    ELSE live_set

RECURSIVE analyze_memory_uses_from(_, _, _, _)
analyze_memory_uses_from(block, idx, live_set, alias_maps) ==
    IF idx < 1 THEN live_set
    ELSE analyze_memory_uses_from(block, idx - 1,
            analyze_memory_use(live_set, block[idx], alias_maps[idx]), alias_maps)

\* analyze_memory_uses
analyze_memory_uses(block, live_out_set, alias_maps) ==
    analyze_memory_uses_from(block, Len(block), live_out_set, alias_maps)

RECURSIVE memory_liveness_pass(_, _, _, _, _, _)
\* memory_liveness_analysis, `for label in reversed(labels)` from labels[n]
\* down; st is [live_in, live_out, changed]
memory_liveness_pass(st, n, bs, g, labels, info) ==
    IF n < 1 THEN st
    ELSE LET label == labels[n]
             out_set == compute_out_set(g, label, st.live_in)
             in_set == analyze_memory_uses(bs[block_index(labels, label)],
                                           out_set, info[label])
         IN  memory_liveness_pass(
                [live_in |-> [st.live_in EXCEPT ![label] = in_set],
                 live_out |-> [st.live_out EXCEPT ![label] = out_set],
                 changed |-> st.changed \/ in_set # st.live_in[label]],
                n - 1, bs, g, labels, info)

\* is_dead_store without the two tests for "unknown"
is_dead_store_by_disjointness(instr, alias_map, live) ==
    IF instr.op = "store"
    THEN PtsGet(alias_map, instr.args[1]) \cap live = {}
    ELSE FALSE

\* is_dead_store (the definition in force, the later of the two)
is_dead_store(instr, alias_map, live) ==
    IF instr.op = "store"
    THEN LET points_to == PtsGet(alias_map, instr.args[1]) IN
         /\ points_to \cap live = {}
         /\ "unknown" \notin points_to
         /\ "unknown" \notin live
    ELSE FALSE

\* update_live_vars
update_live_vars(instr, alias_map, live) ==
    IF instr.op \in {"load", "ret"} /\ HasArgs(instr)
    THEN live \cup PtsGet(alias_map, instr.args[1])
    ELSE IF instr.op = "free" /\ HasArgs(instr)
    THEN live \ PtsGet(alias_map, instr.args[1])
    ELSE IF instr.op = "call"
    THEN live \cup UNION {PtsGet(alias_map, a) : a \in Range(instr.args)}
    ELSE live

RECURSIVE remove_dead_stores_from(_, _, _, _, _)
\* remove_dead_stores (the definition in force), `for idx in reversed(range(
\* len(block)))` from idx down for block b; st is [block, live_vars, removed]:
\* block is reversed(new_block), removed the stores skipped
remove_dead_stores_from(st, bs, b, idx, alias_maps) ==
    IF idx < 1 THEN st
    ELSE LET instr == bs[b][idx] IN
         remove_dead_stores_from(
            IF is_dead_store(instr, alias_maps[idx], st.live_vars)
            THEN [st EXCEPT !.removed = @ \cup
                    {[b |-> b, idx |-> idx,
                      points_to |-> PtsGet(alias_maps[idx], instr.args[1]),
                      live_vars |-> st.live_vars]}]
            ELSE [st EXCEPT !.block = <<instr>> \o @,
                            !.live_vars = update_live_vars(instr, alias_maps[idx], @)],
            bs, b, idx - 1, alias_maps)

\* the functions optimize_function is run on: p is allocated, q is a
\* parameter, a load result, a call result or a copy of p
DseAlphabet ==
    { Instr("alloc", "p", <<"n">>, 0, <<>>),
      Instr("store", "", <<"p", "v">>, 0, <<>>),
      Instr("store", "", <<"q", "v">>, 0, <<>>),
      Instr("load", "q", <<"p">>, 0, <<>>),
      Instr("id", "q", <<"p">>, 0, <<>>),
      Instr("call", "q", <<>>, 0, <<>>),
      Label("L"),
      Instr("jmp", "", <<>>, 0, <<"L">>) }

\* func['args']: no parameter, or the parameter q
DseParams == {<<>>, <<"q">>}

InitDSE ==
    /\ input \in {is \in SeqsUpTo(DseAlphabet, MaxDseInstrs) : WellFormed(is)}
    /\ instrs = input
    /\ func_args \in DseParams
    /\ pc = "optimize_function"
    /\ blocks = <<>>
    /\ block_labels = <<>>
    /\ cfg = <<>>
    /\ pos = 1
    /\ in_state = EmptyDict /\ out_state = EmptyDict /\ dse_worklist = <<>>
    /\ alias_info = EmptyDict /\ live_in = EmptyDict /\ live_out = EmptyDict
    /\ changed = FALSE /\ removed = {}
    /\ cur_block = <<>> /\ curr_label = "" /\ preds = <<>>
    /\ IdleDF /\ IdleLVN /\ IdleDCE /\ IdleLDCE /\ IdleLICM

\* optimize_function up to the while-loop of alias_analysis
DseEntry ==
    /\ pc = "optimize_function"
    /\ blocks' = form_blocks(instrs)
    /\ block_labels' = initialize_labels(blocks')
    /\ cfg' = build_cfg_edges(blocks', block_labels')
    /\ in_state' = initialize_states(block_labels')
    /\ out_state' = initialize_states(block_labels')
    /\ dse_worklist' = block_labels'
    /\ pc' = "alias_analysis"
    /\ UNCHANGED <<input, instrs, pos, func_args, alias_info, live_in, live_out,
                   changed, removed, restDSE>>

\* alias_analysis: one iteration of `while worklist`
AliasStep ==
    /\ pc = "alias_analysis"
    /\ dse_worklist # <<>>
    /\ LET st == alias_analysis_step(
                    [worklist |-> dse_worklist, in_state |-> in_state,
                     out_state |-> out_state],
                    blocks, block_labels, cfg,
                    initialize_func_args_state(func_args), instrs)
       IN  /\ dse_worklist' = st.worklist
           /\ in_state' = st.in_state
           /\ out_state' = st.out_state
    /\ UNCHANGED <<pc, input, instrs, blocks, pos, block_labels, cfg, func_args,
                   alias_info, live_in, live_out, changed, removed, restDSE>>

\* alias_analysis returns; build_alias_info; memory_liveness_analysis is entered
AliasReturn ==
    /\ pc = "alias_analysis"
    /\ dse_worklist = <<>>
    /\ alias_info' = build_alias_info(in_state, block_labels, blocks, instrs)
    /\ live_in' = [l \in Range(block_labels) |-> {}]
    /\ live_out' = [l \in Range(block_labels) |-> {}]
    /\ changed' = TRUE
    /\ pc' = "memory_liveness_analysis"
    /\ UNCHANGED <<input, instrs, blocks, pos, block_labels, cfg, func_args,
                   in_state, out_state, dse_worklist, removed, restDSE>>

\* memory_liveness_analysis: one iteration of `while changed`
LivenessPass ==
    /\ pc = "memory_liveness_analysis"
    /\ changed
    /\ LET st == memory_liveness_pass(
                    [live_in |-> live_in, live_out |-> live_out, changed |-> FALSE],
                    Len(block_labels), blocks, cfg, block_labels, alias_info)
       IN  /\ live_in' = st.live_in
           /\ live_out' = st.live_out
           /\ changed' = st.changed
    /\ UNCHANGED <<pc, input, instrs, blocks, pos, block_labels, cfg, func_args,
                   in_state, out_state, dse_worklist, alias_info, removed, restDSE>>

\* memory_liveness_analysis returns; remove_dead_stores is entered
LivenessReturn ==
    /\ pc = "memory_liveness_analysis"
    /\ ~changed
    /\ pos' = 1
    /\ pc' = "remove_dead_stores"
    /\ UNCHANGED <<input, instrs, blocks, block_labels, cfg, dseVars, restDSE>>

\* remove_dead_stores: one iteration of `for label in labels`
RemoveDeadStoresBlock ==
    /\ pc = "remove_dead_stores"
    /\ pos <= Len(block_labels)
    /\ LET label == block_labels[pos]
           b == block_index(block_labels, label)
           st == remove_dead_stores_from(
                    [block |-> <<>>, live_vars |-> live_out[label],
                     removed |-> removed],
                    blocks, b, Len(blocks[b]), alias_info[label])
       IN  /\ blocks' = [blocks EXCEPT ![b] = st.block]
           /\ removed' = st.removed
    /\ pos' = pos + 1
    /\ UNCHANGED <<pc, input, instrs, block_labels, cfg, func_args, in_state,
                   out_state, dse_worklist, alias_info, live_in, live_out,
                   changed, restDSE>>

\* remove_dead_stores: func['instrs'] = flatten(...); optimize_function returns
RemoveDeadStoresReturn ==
    /\ pc = "remove_dead_stores"
    /\ pos > Len(block_labels)
    /\ instrs' = flatten(blocks)
    /\ pc' = "dse_done"
    /\ UNCHANGED <<input, blocks, pos, block_labels, cfg, dseVars, restDSE>>

NextDSE ==
    \/ DseEntry
    \/ AliasStep
    \/ AliasReturn
    \/ LivenessPass
    \/ LivenessReturn
    \/ RemoveDeadStoresBlock
    \/ RemoveDeadStoresReturn

SpecDSE == InitDSE /\ [][NextDSE]_vars

\* the blocks optimize_function started from, with their labels
InputBlocks == form_blocks(input)

\* the alias set the analysis gives the target of the store at idx of block b
TargetAliases(b, idx) ==
    PtsGet(alias_info[block_labels[b]][idx], InputBlocks[b][idx].args[1])

\* the store at idx of block b was removed
StoreRemoved(b, idx) == \E r \in removed : r.b = b /\ r.idx = idx

\* the stores at i < j of block b have the identical alias set, made of
\* allocation sites only, and no load, call, ret or free lies between them
OverwrittenBy(b, i, j) ==
    /\ i < j
    /\ InputBlocks[b][i].op = "store" /\ InputBlocks[b][j].op = "store"
    /\ TargetAliases(b, i) = TargetAliases(b, j)
    /\ TargetAliases(b, i) # {}
    /\ "unknown" \notin TargetAliases(b, i)
    /\ \A k \in (i + 1)..(j - 1) :
          InputBlocks[b][k].op \notin {"load", "call", "ret", "free"}

\* C11: when optimize_function has returned, every store that is followed in
\* its block by a store to the identical alias set (allocation sites only),
\* with no load, call, ret or free in between, has been removed; so of
\* p = alloc; store p; store p; load p the first store is gone.
C11_OverwrittenStoreRemoved ==
    pc = "dse_done" =>
        \A b \in 1..Len(InputBlocks) : \A i, j \in 1..Len(InputBlocks[b]) :
            OverwrittenBy(b, i, j) => StoreRemoved(b, i)

RECURSIVE DerivesFromUnknown(_, _, _)
\* var, read at idx of block, holds a load result, a call result, or a copy
\* or pointer arithmetic of one, by the definitions that precede idx in the block
DerivesFromUnknown(block, idx, var) ==
    LET defs == {j \in 1..(idx - 1) : block[j].dest = var} IN
    IF defs = {} THEN FALSE
    ELSE LET j == CHOOSE k \in defs : \A m \in defs : m <= k IN
         IF block[j].op \in {"load", "call"} THEN TRUE
         ELSE IF block[j].op \in {"id", "ptradd"}
         THEN DerivesFromUnknown(block, j, block[j].args[1])
         ELSE FALSE

\* C12: every store that remove_dead_stores has skipped had a target whose
\* alias set was disjoint from the live set at that point, neither set held
\* "unknown", and the target was not a load or call result or a copy of one.
C12_UnknownStoreNeverRemoved ==
    \A r \in removed :
        /\ r.points_to \cap r.live_vars = {}
        /\ "unknown" \notin r.points_to
        /\ "unknown" \notin r.live_vars
        /\ ~DerivesFromUnknown(InputBlocks[r.b], r.idx,
                               InputBlocks[r.b][r.idx].args[1])

\* optimize_function has returned having removed one store and kept, in the
\* same function, a store through a loaded pointer
C12_Witness ==
    /\ pc = "dse_done"
    /\ removed # {}
    /\ \E b \in 1..Len(InputBlocks) : \E i \in 1..Len(InputBlocks[b]) :
          /\ InputBlocks[b][i].op = "store"
          /\ DerivesFromUnknown(InputBlocks[b], i, InputBlocks[b][i].args[1])
          /\ ~StoreRemoved(b, i)

\* the parameters that no instruction of the function assigns
UnassignedParams ==
    {a \in Range(func_args) : \A i \in 1..Len(input) : input[i].dest # a}

\* C17: when optimize_function has returned, a parameter that is never
\* reassigned has "unknown" in its points-to set before every instruction of
\* every block, and no store through it was removed, also when the entry
\* block has a predecessor.
C17_ParameterStaysUnknown ==
    pc = "dse_done" =>
        \A a \in UnassignedParams :
            \A b \in 1..Len(InputBlocks) : \A i \in 1..Len(InputBlocks[b]) :
                /\ "unknown" \in PtsGet(alias_info[block_labels[b]][i], a)
                /\ (InputBlocks[b][i].op = "store" /\ InputBlocks[b][i].args[1] = a)
                      => ~StoreRemoved(b, i)

-----------------------------------------------------------------------------
(* Block labels (SpecBlocks) *)

\* no two label instructions of the input carry the same name
ExplicitLabelsDistinct ==
    \A i, j \in 1..Len(input) :
        (~HasOp(input[i]) /\ input[i].label = input[j].label) => i = j

\* C15: once get_block_labels or initialize_labels has named the blocks of a
\* function whose explicit labels are distinct, no two blocks have the same
\* label: a generated name differs from every label of the function, also
\* from the explicit label of a later block.
C15_BlockLabelsDistinct ==
    (pc \in {"cfg", "cfg_dse", "KeyError"} /\ ExplicitLabelsDistinct) =>
        \A i, j \in 1..Len(block_labels) :
            block_labels[i] = block_labels[j] => i = j

-----------------------------------------------------------------------------
(* local_opt/local_dce.py: local dead code elimination.                    *)

\* longest instruction list local_dce is run on
MaxLdceInstrs == 4

\* list.pop(k), k counted from 1
RemoveAt(s, k) == SubSeq(s, 1, k - 1) \o SubSeq(s, k + 1, Len(s))

\* local_dce, the body of `for i, instr in enumerate(block)`; st is
\* [block, ids, last_def], i the place the list iterator is at (from 1), ids
\* the places in func['instrs'] of the instructions of block
local_dce_step(st, i) ==
    LET instr == st.block[i]
        popped == [v \in DOMAIN st.last_def \ Range(instr.args) |-> st.last_def[v]]
    IN  IF HasDest(instr)
        THEN LET dest == instr.dest
                 hit == dest \in DOMAIN popped
             IN  [block |-> IF hit THEN RemoveAt(st.block, popped[dest]) ELSE st.block,
                  ids |-> IF hit THEN RemoveAt(st.ids, popped[dest]) ELSE st.ids,
                  last_def |-> DictPut(popped, dest, i)]
        ELSE [st EXCEPT !.last_def = popped]

\* the functions local_dce is run on
LdceAlphabet ==
    { Instr("const", "a", <<>>, 1, <<>>),
      Instr("const", "a", <<>>, 2, <<>>),
      Instr("id", "b", <<"a">>, 0, <<>>),
      Instr("print", "", <<"a">>, 0, <<>>),
      Instr("print", "", <<"x">>, 0, <<>>),
      Label("L") }

InitLDCE ==
    /\ input \in SeqsUpTo(LdceAlphabet, MaxLdceInstrs)
    /\ instrs = input
    /\ pc = "local_dce"
    /\ blocks = <<>>
    /\ pos = 1
    /\ last_def = EmptyDict /\ bidx = 0 /\ kept = <<>>
    /\ cur_block = <<>>
    /\ IdleCfg /\ IdleDF /\ IdleLVN /\ IdleDCE /\ IdleDSE /\ IdleLICM

\* blocks = list(form_blocks(func['instrs'])); the outer for-loop is entered
LdceEntry ==
    /\ pc = "local_dce"
    /\ blocks' = form_blocks(instrs)
    /\ kept' = [b \in 1..Len(blocks') |->
                  [i \in 1..Len(blocks'[b]) |-> instr_id(blocks', b, i)]]
    /\ bidx' = 1
    /\ pos' = 1
    /\ last_def' = EmptyDict
    /\ pc' = "ldce_block"
    /\ UNCHANGED <<input, instrs, restLDCE>>

\* one iteration of `for i, instr in enumerate(block)`
LdceInstr ==
    /\ pc = "ldce_block"
    /\ bidx <= Len(blocks)
    /\ pos <= Len(blocks[bidx])
    /\ LET st == local_dce_step([block |-> blocks[bidx], ids |-> kept[bidx],
                                 last_def |-> last_def], pos)
       IN  /\ blocks' = [blocks EXCEPT ![bidx] = st.block]
           /\ kept' = [kept EXCEPT ![bidx] = st.ids]
           /\ last_def' = st.last_def
    /\ pos' = pos + 1
    /\ UNCHANGED <<pc, input, instrs, bidx, restLDCE>>

\* the list iterator of the block is exhausted: next block, last_def = {}
LdceBlockEnd ==
    /\ pc = "ldce_block"
    /\ bidx <= Len(blocks)
    /\ pos > Len(blocks[bidx])
    /\ bidx' = bidx + 1
    /\ pos' = 1
    /\ last_def' = EmptyDict
    /\ UNCHANGED <<pc, input, instrs, blocks, kept, restLDCE>>

\* func['instrs'] = flatten(blocks)
LdceReturn ==
    /\ pc = "ldce_block"
    /\ bidx > Len(blocks)
    /\ instrs' = flatten(blocks)
    /\ pc' = "ldce_done"
    /\ UNCHANGED <<input, blocks, pos, ldceVars, restLDCE>>

NextLDCE ==
    \/ LdceEntry
    \/ LdceInstr
    \/ LdceBlockEnd
    \/ LdceReturn

SpecLDCE == InitLDCE /\ [][NextLDCE]_vars

\* the places of func['instrs'] whose instruction local_dce has removed
LdceRemoved ==
    IF pc \in {"ldce_block", "ldce_done"}
    THEN (1..Len(input)) \ UNION {Range(kept[b]) : b \in 1..Len(kept)}
    ELSE {}

\* the instruction at place g defines a variable that is defined again later
\* in the same block with no use of the variable in between
RedefinedBeforeUse(g) ==
    /\ HasDest(input[g])
    /\ \E h \in (g + 1)..Len(input) :
          /\ input[h].dest = input[g].dest
          /\ \A k \in (g + 1)..h :
                HasOp(input[k]) /\ input[g].dest \notin Range(input[k].args)
          /\ \A k \in g..(h - 1) : input[k].op \notin TERMINATORS

\* C16: every instruction local_dce has removed defines a variable that is
\* defined again later in the same block with no use in between; so no
\* instruction without a destination and no definition that is read before
\* its next redefinition, or is the last one of its variable, is removed.
C16_OnlyOverwrittenDefinitionsRemoved ==
    \A g \in LdceRemoved : RedefinedBeforeUse(g)

-----------------------------------------------------------------------------
(* Termination of the solvers (SpecDF) *)

\* longest instruction list the solvers are run on to completion in every order
MaxTermInstrs == 3

InitTermination == InitDF /\ Len(input) <= MaxTermInstrs

\* a solver is a sequential loop: it takes its next step whenever it has one
FairSpecDF == InitTermination /\ [][NextDF]_vars /\ WF_vars(NextDF)

\* C20: for every analysis instance and every CFG, with or without loops,
\* the solver's worklist eventually becomes empty and the solver returns.
C20_SolverTerminates == <>(worklist = {} /\ pc = "returned")

\* a solver has returned for a CFG with a loop, after the value of the block
\* on the loop left the initial value and the block was taken up again
C20_Witness ==
    /\ pc = "returned"
    /\ worklist = {}
    /\ \E b \in Range(block_labels) :
          /\ b \in SuccsOf(b)
          /\ Out[b] # init(analysis)
          /\ In[b] # init(analysis)

-----------------------------------------------------------------------------
(* loop/licm.py: loop-invariant code motion.  Graphs are passed as         *)
(* label -> [successors, predecessors]; label2block as label -> block.     *)

RECURSIVE ReachableFrom(_, _, _)
\* the blocks reached from the blocks of seen along successor edges that do
\* not lead into avoid
ReachableFrom(g, seen, avoid) ==
    LET more == (UNION {g[v].successors : v \in seen} \cap DOMAIN g) \ (seen \cup avoid)
    IN  IF more = {} THEN seen ELSE ReachableFrom(g, seen \cup more, avoid)

\* the dom module, as the design describes it: one round of
\* Dom[b] = {b} \cup the intersection of Dom[p] over the predecessors p of b
dominator_round(g, entry, dom) ==
    [b \in DOMAIN g |->
        IF b = entry THEN {entry}
        ELSE {b} \cup {d \in DOMAIN g : \A p \in g[b].predecessors : d \in dom[p]}]

RECURSIVE dominator_fixpoint(_, _, _)
dominator_fixpoint(g, entry, dom) ==
    LET next == dominator_round(g, entry, dom)
    IN  IF next = dom THEN dom ELSE dominator_fixpoint(g, entry, next)

\* dom.find_dominators: Dom[entry] = {entry}, every other block starts from
\* the full block set, iterated to the fixpoint
find_dominators(g, entry) ==
    dominator_fixpoint(g, entry,
        [b \in DOMAIN g |-> IF b = entry THEN {entry} ELSE DOMAIN g])

\* can_reach: a search from start along successors other than avoid finds target
can_reach(g, start, target, avoid) ==
    target \in ReachableFrom(g, {start}, {avoid})

\* find_natural_loop_from_backedge
find_natural_loop_from_backedge(g, h, t) ==
    [entry |-> h,
     loop |-> {h, t} \cup {node \in DOMAIN g \ {h, t} : can_reach(g, node, t, h)}]

RECURSIVE find_loops_from(_, _, _)
\* find_loops: for vertex in graph (program order), for succ in its successors
find_loops_from(g, labels, dom) ==
    IF labels = <<>> THEN <<>>
    ELSE LET vertex == Head(labels)
             succs == SetToSeq({s \in g[vertex].successors : s \in dom[vertex]})
         IN  [i \in 1..Len(succs) |->
                 find_natural_loop_from_backedge(g, succs[i], vertex)]
             \o find_loops_from(g, Tail(labels), dom)

find_loops(g, labels, dom) == find_loops_from(g, labels, dom)

\* format_def
format_def(var, defn) == var \o ": int = " \o format_instruction(defn) \o ";"

\* update_loop_reaching_defs for reaching_defs[pred], a dict of sets
update_loop_reaching_defs(acc, defs) ==
    [var \in DOMAIN acc \cup DOMAIN defs |->
        (IF var \in DOMAIN acc THEN acc[var] ELSE {})
        \cup (IF var \in DOMAIN defs THEN defs[var] ELSE {})]

\* update_loop_reaching_defs for get_var_defs(block), a dict of instructions
update_loop_reaching_defs_instrs(acc, defs) ==
    update_loop_reaching_defs(acc,
        [var \in DOMAIN defs |-> {format_def(var, defs[var])}])

RECURSIVE before_loop_from(_, _, _, _)
before_loop_from(ps, lb, rd, acc) ==
    IF ps = <<>> THEN acc
    ELSE before_loop_from(Tail(ps), lb, rd,
            update_loop_reaching_defs_instrs(
                update_loop_reaching_defs(acc, rd[Head(ps)]),
                get_var_defs(lb[Head(ps)])))

\* get_reaching_defs_immediately_before_loop
get_reaching_defs_immediately_before_loop(g, lb, rd, loop) ==
    before_loop_from(SetToSeq(g[loop.entry].predecessors \ loop.loop), lb, rd,
                     EmptyDict)

\* is_all_reachdefs_outside
is_all_reachdefs_outside(var, before_loop_defs, block_reaching_defs) ==
    /\ var \in DOMAIN before_loop_defs
    /\ block_reaching_defs[var] = before_loop_defs[var]

RECURSIVE invariants_in_block(_, _, _, _, _, _)
\* find_loop_invariant_instrs, `for instr in label2block[lblock]` from is[i] on;
\* li is loop_invariants, an insertion-ordered dict dest -> [instr, block]
invariants_in_block(li, is, i, lblock, before_loop_defs, block_reaching_defs) ==
    IF i > Len(is) THEN li
    ELSE LET instr == is[i]
             invariant ==
                /\ HasArgs(instr) /\ HasDest(instr)
                /\ \A arg \in Range(instr.args) :
                      \/ DictHas(li, arg)
                      \/ is_all_reachdefs_outside(arg, before_loop_defs,
                                                  block_reaching_defs)
         IN  invariants_in_block(
                IF invariant
                THEN DictSet(li, instr.dest, [instr |-> instr, block |-> lblock])
                ELSE li,
                is, i + 1, lblock, before_loop_defs, block_reaching_defs)

RECURSIVE invariants_round(_, _, _, _, _)
\* find_loop_invariant_instrs, `for lblock in loop["loop"]` in the order the
\* set is iterated in
invariants_round(li, order, lb, rd, before_loop_defs) ==
    IF order = <<>> THEN li
    ELSE invariants_round(
            invariants_in_block(li, lb[Head(order)], 1, Head(order),
                                before_loop_defs, rd[Head(order)]),
            Tail(order), lb, rd, before_loop_defs)

RECURSIVE invariants_fixpoint(_, _, _, _, _)
\* find_loop_invariant_instrs, `while True` until a round changes nothing
invariants_fixpoint(li, order, lb, rd, before_loop_defs) ==
    LET next == invariants_round(li, order, lb, rd, before_loop_defs)
    IN  IF Range(next) = Range(li) THEN next
        ELSE invariants_fixpoint(next, order, lb, rd, before_loop_defs)

\* find_loop_invariant_instrs; order is the iteration order of loop["loop"]
find_loop_invariant_instrs(g, lb, rd, loop, order) ==
    invariants_fixpoint(<<>>, order, lb, rd,
        get_reaching_defs_immediately_before_loop(g, lb, rd, loop))

\* get_loop_exits
get_loop_exits(g, loop) ==
    {lblock \in loop.loop : \E succ \in g[lblock].successors : succ \notin loop.loop}

\* is_var_defined_elsewhere
is_var_defined_elsewhere(lb, var, vardef, loop) ==
    \E lblock \in loop.loop :
        LET defs == get_var_defs(lb[lblock])
        IN  \E defvar \in DOMAIN defs : var = defvar /\ vardef # defs[defvar]

\* get_loop_blocks_that_use_var
get_loop_blocks_that_use_var(lb, var, loop) ==
    {lblock \in loop.loop :
        \E i \in 1..Len(lb[lblock]) : var \in Range(lb[lblock][i].args)}

\* is_var_used_in_future
is_var_used_in_future(g, lb, var, start_block) ==
    \E b \in ReachableFrom(g, {start_block}, {}) :
        \E i \in 1..Len(lb[b]) : var \in Range(lb[b][i].args)

\* sat_relaxed_cond_3 without the test for div and print
sat_relaxed_cond_3_any_opcode(g, lb, exits, li_var, li, loop) ==
    \A lexit \in exits : \A succ \in g[lexit].successors \ loop.loop :
        ~is_var_used_in_future(g, lb, li_var, succ)

\* sat_relaxed_cond_3
sat_relaxed_cond_3(g, lb, exits, li_var, li, loop) ==
    IF DictGet(li, li_var).instr.op \in {"div", "print"} THEN FALSE
    ELSE \A lexit \in exits : \A succ \in g[lexit].successors \ loop.loop :
            ~is_var_used_in_future(g, lb, li_var, succ)

\* can_move
can_move(g, lb, dom, li, li_var, loop, exits) ==
    LET li_block == DictGet(li, li_var).block IN
    /\ ~is_var_defined_elsewhere(lb, li_var, DictGet(li, li_var).instr, loop)
    /\ \A use_block \in get_loop_blocks_that_use_var(lb, li_var, loop) :
          li_block \in dom[use_block]
    /\ \A lexit \in exits :
          \/ li_block \in dom[lexit]
          \/ sat_relaxed_cond_3(g, lb, exits, li_var, li, loop)

\* update_label2block
update_label2block(lb, preheader_label, preloop_header) ==
    DictPut(lb, preheader_label, preloop_header)

\* update_graph; GraphNode([loop_entry]) is a node whose successors are
\* {loop_entry}
update_graph(g, preheader_label, loop_entry) ==
    LET redirected ==
            [vertex \in DOMAIN g |->
                IF loop_entry \in g[vertex].successors
                THEN [g[vertex] EXCEPT !.successors =
                         (@ \ {loop_entry}) \cup {preheader_label}]
                ELSE g[vertex]]
    IN  DictPut(redirected, preheader_label,
                [successors |-> {loop_entry},
                 predecessors |-> redirected[loop_entry].predecessors])

\* make_preloop_header; acc is preheader_acc on entry
make_preloop_header(g, lb, dom, li, loop, is, acc) ==
    LET preheader_label == "preheader" \o ToString(acc)
        exits == get_loop_exits(g, loop)
        movable_vars == SelectSeq(DictKeys(li),
                            LAMBDA v : can_move(g, lb, dom, li, v, loop, exits))
        movable_instrs == [i \in 1..Len(movable_vars) |->
                              DictGet(li, movable_vars[i]).instr]
        preloop_header == <<Label(preheader_label)>> \o movable_instrs
        without == SelectSeq(is, LAMBDA instr : instr \notin Range(movable_instrs))
        insert_index == CHOOSE i \in 1..Len(without) :
                            /\ without[i] = Label(loop.entry)
                            /\ \A j \in 1..(i - 1) : without[j] # Label(loop.entry)
    IN  [new_instrs |-> SubSeq(without, 1, insert_index - 1) \o preloop_header
                        \o SubSeq(without, insert_index, Len(without)),
         new_graph |-> update_graph(g, preheader_label, loop.entry),
         new_label2block |-> update_label2block(lb, preheader_label, preloop_header),
         preheader_label |-> preheader_label,
         exits |-> exits,
         movable_instrs |-> movable_instrs]

\* longest run of instructions in the body of the loop header
MaxBodyInstrs == 2

\* the instructions of loop bodies: a is defined once before the loop
LicmBody ==
    { Instr("add", "t", <<"a", "a">>, 0, <<>>),
      Instr("div", "t", <<"a", "a">>, 0, <<>>),
      Instr("const", "t", <<>>, 2, <<>>),
      Instr("id", "u", <<"t">>, 0, <<>>) }

\* the entry block reaches the header H by fall-through or by a jmp
LicmEntryBlocks ==
    { <<Instr("const", "a", <<>>, 1, <<>>)>>,
      <<Instr("const", "a", <<>>, 1, <<>>), Instr("jmp", "", <<>>, 0, <<"H">>)>> }

LicmHeaderEnds ==
    { <<Instr("br", "", <<"c">>, 0, <<"H", "E">>)>>,
      <<Instr("br", "", <<"c">>, 0, <<"B", "E">>)>>,
      <<Instr("jmp", "", <<>>, 0, <<"B">>)>> }

\* a second loop block B, or none
LicmSecondBlocks ==
    {<<>>} \cup
    { <<Label("B")>> \o body \o end :
        body \in SeqsUpTo(LicmBody, 1),
        end \in { <<Instr("jmp", "", <<>>, 0, <<"H">>)>>,
                  <<Instr("br", "", <<"c">>, 0, <<"H", "E">>)>> } }

\* the block after the loop reads t, writes t or does neither
LicmExitBlocks ==
    { <<Label("E")>>, <<Label("E"), Instr("print", "", <<"t">>, 0, <<>>)>>,
      <<Label("E"), Instr("add", "t", <<"a", "a">>, 0, <<>>)>> }

\* every block but the first has a predecessor
NoOrphanBlock(is) ==
    LET bs == form_blocks(is)
        labels == label_blocks(bs)
        g == graph_of(bs, labels)
    IN  \A i \in 2..Len(labels) : g[labels[i]].predecessors # {}

\* the functions process_function is run on
LicmPrograms ==
    { is \in { entry \o <<Label("H")>> \o body \o end \o second \o exit :
                 entry \in LicmEntryBlocks,
                 body \in SeqsUpTo(LicmBody, MaxBodyInstrs),
                 end \in LicmHeaderEnds,
                 second \in LicmSecondBlocks,
                 exit \in LicmExitBlocks } :
        WellFormed(is) /\ NoOrphanBlock(is) }

\* the orders a Python set may be iterated in
Orders(S) == {order \in [1..Cardinality(S) -> S] : Range(order) = S}

InitLICM ==
    /\ input \in LicmPrograms
    /\ instrs = input
    /\ pc = "process_function"
    /\ blocks = <<>>
    /\ block_labels = <<>>
    /\ pos = 1
    /\ IdleDF /\ IdleLICM
    /\ cur_block = <<>> /\ cfg = <<>> /\ curr_label = "" /\ preds = <<>>
    /\ IdleLVN /\ IdleDCE /\ IdleDSE /\ IdleLDCE

\* process_function: blocks, CFG, dominators; data_flow_analysis is entered
LicmBuildCfg ==
    /\ pc = "process_function"
    /\ blocks' = form_blocks(instrs)
    /\ block_labels' = label_blocks(blocks')
    /\ graph' = graph_of(blocks', block_labels')
    /\ l2b' = [l \in Range(block_labels') |->
                  blocks'[CHOOSE i \in 1..Len(blocks') : block_labels'[i] = l]]
    /\ dominators' = find_dominators(graph', block_labels'[1])
    /\ analysis' = "REACHING_DEFS"
    /\ LET st == solver_entry("REACHING_DEFS", block_labels')
       IN  worklist' = st.worklist /\ In' = st.In /\ Out' = st.Out
    /\ pc' = "data_flow_analysis"
    /\ UNCHANGED <<input, instrs, pos, loops, preheader_acc, hoisted, restLICM>>

\* process_function: data_flow_analysis runs to its return (its result does
\* not depend on the pop order); find_loops
LicmReachingDefs ==
    /\ pc = "data_flow_analysis"
    /\ LET st == solved_in_fixed_order(
                    [worklist |-> worklist, In |-> In, Out |-> Out])
       IN  worklist' = st.worklist /\ In' = st.In /\ Out' = st.Out
    /\ loops' = find_loops(graph, block_labels, dominators)
    /\ pos' = 1
    /\ pc' = "loops"
    /\ UNCHANGED <<input, instrs, blocks, block_labels, analysis, graph,
                   dominators, l2b, preheader_acc, hoisted, restLICM>>

\* process_function: one iteration of `for loop in loops`
LicmLoop ==
    /\ pc = "loops"
    /\ pos <= Len(loops)
    /\ \E order \in Orders(loops[pos].loop) :
          LET loop == loops[pos]
              li == find_loop_invariant_instrs(graph, l2b, In, loop, order)
              r == make_preloop_header(graph, l2b, dominators, li, loop, instrs,
                                       preheader_acc)
          IN  /\ instrs' = r.new_instrs
              /\ graph' = r.new_graph
              /\ l2b' = r.new_label2block
              /\ hoisted' = Append(hoisted,
                    [loop |-> loop, loop_invariants |-> li, graph |-> graph,
                     preheader_label |-> r.preheader_label, exits |-> r.exits,
                     movable_instrs |-> r.movable_instrs])
    /\ preheader_acc' = preheader_acc + 1
    /\ pos' = pos + 1
    /\ UNCHANGED <<pc, input, blocks, block_labels, analysis, worklist, In, Out,
                   dominators, loops, restLICM>>

\* process_function returns new_instrs
LicmReturn ==
    /\ pc = "loops"
    /\ pos > Len(loops)
    /\ pc' = "licm_done"
    /\ UNCHANGED <<input, instrs, blocks, pos, block_labels, dfVars, licmVars,
                   restLICM>>

NextLICM ==
    \/ LicmBuildCfg
    \/ LicmReachingDefs
    \/ LicmLoop
    \/ LicmReturn

SpecLICM == InitLICM /\ [][NextLICM]_vars

-----------------------------------------------------------------------------
(* Claims about LICM (SpecLICM) *)

\* the CFG of the function process_function was given
InputGraph == graph_of(blocks, block_labels)

\* in the CFG g with entry block e, every path from e to b passes through d
DominatesIn(g, e, d, b) == d = b \/ d = e \/ b \notin ReachableFrom(g, {e}, {d})

\* the CFG of the instruction list process_function returns
OutputBlocks == form_blocks(instrs)
OutputLabels == label_blocks(OutputBlocks)
OutputGraph == graph_of(OutputBlocks, OutputLabels)

\* the block of the returned list that starts with the label l
OutputBlock(l) == OutputBlocks[CHOOSE i \in 1..Len(OutputLabels) : OutputLabels[i] = l]

\* var has one definition in the function and none in a block of the loop
DefinedOnceOutside(var, loop) ==
    /\ Cardinality({i \in 1..Len(input) : input[i].dest = var}) = 1
    /\ \A lblock \in loop.loop : \A i \in 1..Len(label2block(lblock)) :
          label2block(lblock)[i].dest # var

\* make_preloop_header moved an add whose operands are defined once outside
HoistedInvariantAdds(r) ==
    {instr \in Range(r.movable_instrs) :
        /\ instr.op = "add"
        /\ \A arg \in Range(instr.args) : DefinedOnceOutside(arg, r.loop)}

\* C13: when process_function has returned, every add of operands defined
\* once outside the loop that was hoisted is in the pre-header block, and in
\* the control flow of the returned list every path from the function entry
\* to the loop header passes through the pre-header.
C13_PreheaderDominatesHeader ==
    pc = "licm_done" =>
        \A k \in 1..Len(hoisted) :
            \A instr \in HoistedInvariantAdds(hoisted[k]) :
                /\ instr \in Range(OutputBlock(hoisted[k].preheader_label))
                /\ hoisted[k].preheader_label # hoisted[k].loop.entry
                /\ hoisted[k].loop.entry \notin
                      ReachableFrom(OutputGraph, {OutputLabels[1]},
                                    {hoisted[k].preheader_label})

\* the graph make_preloop_header returned for the k-th loop
GraphAfter(k) == IF k < Len(hoisted) THEN hoisted[k + 1].graph ELSE graph

C18_OnlyOutsideEdgesRedirected ==
    \A k \in 1..Len(hoisted) :
        LET r == hoisted[k]
            before == r.graph
            after == GraphAfter(k)
        IN  /\ \A p \in DOMAIN before :
                  after[p].successors =
                     IF p \notin r.loop.loop /\ r.loop.entry \in before[p].successors
                     THEN (before[p].successors \ {r.loop.entry})
                              \cup {r.preheader_label}
                     ELSE before[p].successors
            /\ after[r.preheader_label].successors = {r.loop.entry}
            /\ \A b \in DOMAIN after :
                  after[b].predecessors = {p \in DOMAIN after : b \in after[p].successors}

\* C19: for every instruction make_preloop_header moved, no other
\* instruction in any block of the loop writes the same destination.
C19_MovedDestinationDefinedOnce ==
    \A k \in 1..Len(hoisted) :
        \A instr \in Range(hoisted[k].movable_instrs) :
            Cardinality({d \in UNION {{<<lblock, i>> : i \in 1..Len(label2block(lblock))} :
                                         lblock \in hoisted[k].loop.loop} :
                            label2block(d[1])[d[2]].dest = instr.dest}) = 1


\* how many times x occurs in the list is
Occurrences(is, x) == Cardinality({i \in 1..Len(is) : is[i] = x})

\* the instructions make_preloop_header put in a pre-header
HoistedInstrs == UNION {Range(hoisted[k].movable_instrs) : k \in 1..Len(hoisted)}

\* the blocks of the input that belong to no loop
BlocksOutsideLoops ==
    {b \in Range(block_labels) : \A k \in 1..Len(hoisted) : b \notin hoisted[k].loop.loop}

\* C21: when process_function has returned, every instruction of the input
\* occurs in the returned list as often as in the input, the only other
\* elements are one pre-header label per loop, every block outside the loops
\* is in the returned list as it was, and the instructions that were not
\* hoisted are in the order they had.
C21_OnlyMovesAndPreheaderLabels ==
    pc = "licm_done" =>
        /\ \A x \in Range(input) : Occurrences(instrs, x) = Occurrences(input, x)
        /\ \A i \in 1..Len(instrs) :
              instrs[i] \notin Range(input) =>
                 \E k \in 1..Len(hoisted) : instrs[i] = Label(hoisted[k].preheader_label)
        /\ \A k \in 1..Len(hoisted) :
              Occurrences(instrs, Label(hoisted[k].preheader_label)) = 1
        /\ \A b \in BlocksOutsideLoops :
              /\ b \in Range(OutputLabels)
              /\ OutputBlock(b) = label2block(b)
        /\ SelectSeq(instrs, LAMBDA x : x \in Range(input) /\ x \notin HoistedInstrs)
              = SelectSeq(input, LAMBDA x : x \notin HoistedInstrs)

====
